---- MODULE Spec2Model ----
(***************************************************************************)
(* node-mysql-orm: foreign-key resolution, save / saveMany /               *)
(* saveMultipleTables and the SQL clause builders, as a state machine.     *)
(*                                                                         *)
(* The MySQL server is modelled by the tables it holds (db), the           *)
(* AUTO_INCREMENT counters, the transaction state of the connection and    *)
(* the FIFO queue of statements the driver has been handed on that         *)
(* connection.  JavaScript objects are functions from the names of their   *)
(* own properties to tagged values; SQL statements are records of their    *)
(* clauses.                                                                *)
(***************************************************************************)
EXTENDS Integers, FiniteSets, Sequences, TLC

(***************************************************************************)
(* Bounds                                                                  *)
(***************************************************************************)
\* ids and column values range over 1..MaxVal
MaxVal == 2
\* rows handed to one saveMultipleTables call, over all its tables
MaxRows == 2
\* calls of mysql_orm.create with one schema object
MaxCreates == 2
\* $first / $last / $count range over 0..MaxLimit
MaxLimit == 3
MaxSort == 2

VARIABLES
    db,             \* table name -> set of stored rows
    autoinc,        \* table name -> next AUTO_INCREMENT value
    txn,            \* transaction state of the connection
    txnSnap,        \* tables as they were when the transaction began
    queue,          \* statements handed to the connection, FIFO
    call,           \* the operation the caller invoked, with its arguments
    pre,            \* tables as they were when the call was made
    rows,           \* the row objects of the running batch and their save's position
    cur,            \* index in call.data of the table being saved
    phase,          \* position of saveMultipleTables
    batchCb,        \* async.each of saveMany has invoked its final callback
    cb,             \* what the caller's callback has received
    limitCriteria,  \* input of the LIMIT clause builder
    limitResult,    \* what the LIMIT clause builder passed to its callback
    par,            \* the async.parallel of the clause builders of one statement
    orm             \* the ORM being created: its schema, options and initialization steps

dbVars == <<db, autoinc, txn, txnSnap, queue, call, pre, rows, cur, phase, batchCb, cb>>
limitVars == <<limitCriteria, limitResult>>
vars == <<db, autoinc, txn, txnSnap, queue, call, pre, rows, cur, phase, batchCb, cb,
          limitCriteria, limitResult, par, orm>>

\* no async.parallel is running
NoParallel ==
    [op |-> "none", tasks |-> <<>>, results |-> <<>>, order |-> <<>>, final |-> "none",
     sql |-> <<>>]

\* mysql_orm.create has not been called
NoOrm == [pc |-> "none"]

(***************************************************************************)
(* JavaScript values                                                       *)
(***************************************************************************)
Vals == 1..MaxVal
Num(n) == [k |-> "num", n |-> n]
Str(s) == [k |-> "str", s |-> s]
Obj(c) == [k |-> "obj", c |-> c]
Ref(i) == [k |-> "ref", i |-> i]
Undefined == [k |-> "undefined"]
\* JavaScript null
Null == [k |-> "null"]
Bool(b) == [k |-> "bool", b |-> b]
Arr(a) == [k |-> "arr", a |-> a]
\* a reference to a field descriptor object
FieldRef(t, f) == [k |-> "field", t |-> t, f |-> f]
isObject(v) == v.k = "obj"
has(obj, key) == key \in DOMAIN obj

\* SQL NULL
NULL == 0

Max(a, b) == IF a > b THEN a ELSE b
Min(a, b) == IF a < b THEN a ELSE b

\* property names that begin with '$'
DollarKeys == {"$saveMode", "$first", "$last", "$count", "$limit", "$sort", "$fields",
               "$lookup", "$primary", "$name", "$schema", "$table", "$types", "$orm"}

\* utils.names: the own property names that do not begin with '$'
names(obj) == {key \in DOMAIN obj : key \notin DollarKeys}

\* delete obj[key]
Delete(obj, key) == [k \in DOMAIN obj \ {key} |-> obj[k]]

\* obj[key] = value
Assign(obj, key, value) == [k \in DOMAIN obj \cup {key} |-> IF k = key THEN value ELSE obj[k]]

(***************************************************************************)
(* The schema, as initialise_schema and column_definition leave it: a      *)
(* field of a ':table' type references the id of that table.  roles and    *)
(* users are the tables of the test schema, with the generated primary key *)
(* id; their other columns are nullable, and the name of a user carries a  *)
(* UNIQUE key.                                                             *)
(***************************************************************************)
NoRef == [table |-> "", field |-> ""]
Schema ==
    [roles |-> [id   |-> [references |-> NoRef, unique |-> FALSE],
                name |-> [references |-> NoRef, unique |-> FALSE]],
     users |-> [id   |-> [references |-> NoRef, unique |-> FALSE],
                name |-> [references |-> NoRef, unique |-> TRUE],
                role |-> [references |-> [table |-> "roles", field |-> "id"],
                          unique |-> FALSE]],
     tags  |-> [code |-> [references |-> NoRef, unique |-> FALSE]]]
\* the tables of the test schema, which the rows that are saved belong to
TableNames == {"roles", "users"}
\* tags is a table that declares $primary: 'code': initialise_schema generates the field id
\* only for a table without $primary
QueryTables == DOMAIN Schema
PrimaryKey(t) == IF t = "tags" THEN "code" ELSE "id"

\* the columns of table t that column_definition declares UNIQUE
UniqueCols(t) == {col \in names(Schema[t]) : Schema[t][col].unique}

\* foreign-keys.listForeignKeys
listForeignKeys(t) == {col \in names(Schema[t]) : Schema[t][col].references # NoRef}

(***************************************************************************)
(* Statements, and what the server does with them                          *)
(***************************************************************************)
\* SELECT <field> FROM <table> WHERE <k = v AND ...> LIMIT 2, sent for the field col of row owner
SelectStmt(owner, col, ref, criteria) ==
    [kind |-> "select", owner |-> owner, col |-> col, table |-> ref.table, field |-> ref.field,
     where |-> criteria]
\* INSERT INTO <table> SET <set> [ON DUPLICATE KEY UPDATE <k = VALUES(k), ...>]
InsertStmt(owner, t, set, dup, keys) ==
    [kind |-> "insert", owner |-> owner, table |-> t, set |-> set, dup |-> dup, keys |-> keys]
\* UPDATE <table> SET <set> WHERE <where>
UpdateStmt(owner, t, set, criteria) ==
    [kind |-> "update", owner |-> owner, table |-> t, set |-> set, where |-> criteria]
CommitStmt == [kind |-> "commit"]
RollbackStmt == [kind |-> "rollback"]

\* the equalities joined with OR instead of AND
Matching_Or(tbl, criteria) == {r \in tbl : \E k \in DOMAIN criteria : r[k] = criteria[k]}

\* the rows of tbl that satisfy every equality of criteria
Matching(tbl, criteria) == {r \in tbl : \A k \in DOMAIN criteria : r[k] = criteria[k]}

\* The lookup query of lookupForeignId.  No criteria gives "WHERE  LIMIT 2", a syntax error;
\* null is written NULL, and no value equals NULL.
ExecSelect(d, s) ==
    IF DOMAIN s.where = {}
    THEN [err |-> TRUE, length |-> 0, value |-> NULL]
    ELSE LET m == IF \E k \in DOMAIN s.where : s.where[k] = NULL THEN {}
                  ELSE Matching(d[s.table], s.where) IN
         [err |-> FALSE,
          length |-> Min(Cardinality(m), 2),
          value |-> IF Cardinality(m) = 1 THEN (CHOOSE r \in m : TRUE)[s.field] ELSE NULL]

\* the FOREIGN KEY constraints column_definition declares hold of row r of table t
FkOk(d, t, r) ==
    \A f \in names(Schema[t]) :
        LET ref == Schema[t][f].references IN
        ref # NoRef => (r[f] = NULL \/ \E p \in d[ref.table] : p[ref.field] = r[f])

WriteError(d, ai) == [err |-> TRUE, affectedRows |-> 0, insertId |-> 0, db |-> d, autoinc |-> ai]

\* the rows of tbl that row r of table t may not be stored next to: they have its primary
\* key, or its value of a UNIQUE column (NULL is no value)
Duplicates(tbl, t, r) ==
    {q \in tbl : q["id"] = r["id"] \/ \E u \in UniqueCols(t) : r[u] # NULL /\ q[u] = r[u]}

\* INSERT: a missing id is generated, a missing column is NULL.  With a duplicate of the
\* row stored, the statement is a duplicate-key error, or with ON DUPLICATE KEY UPDATE an
\* update of the duplicate (the one with the primary key first), itself an error when the
\* update makes a duplicate.  affectedRows counts found rows (the driver's default
\* FOUND_ROWS flag), insertId is the id of the row written.
ExecInsert(d, ai, s) ==
    LET t == s.table
        id == IF has(s.set, "id") THEN s.set["id"] ELSE ai[t]
        fresh == [f \in names(Schema[t]) |->
                    IF f = "id" THEN id ELSE IF has(s.set, f) THEN s.set[f] ELSE NULL]
        dups == Duplicates(d[t], t, fresh)
        upd(r) == [f \in names(Schema[t]) |-> IF f \in s.keys THEN s.set[f] ELSE r[f]]
    IN  IF DOMAIN s.set = {} THEN WriteError(d, ai)
        ELSE IF dups = {}
        THEN IF FkOk(d, t, fresh)
             THEN [err |-> FALSE, affectedRows |-> 1, insertId |-> id,
                   db |-> [d EXCEPT ![t] = @ \cup {fresh}],
                   autoinc |-> [ai EXCEPT ![t] = Max(@, id + 1)]]
             ELSE WriteError(d, ai)
        ELSE IF ~s.dup THEN WriteError(d, ai)
        ELSE LET r == IF \E q \in dups : q["id"] = id
                      THEN CHOOSE q \in dups : q["id"] = id
                      ELSE CHOOSE q \in dups : TRUE
             IN
             IF FkOk(d, t, upd(r)) /\ Duplicates(d[t] \ {r}, t, upd(r)) = {}
             THEN [err |-> FALSE, affectedRows |-> IF upd(r) = r THEN 1 ELSE 2,
                   insertId |-> upd(r)["id"],
                   db |-> [d EXCEPT ![t] = (@ \ {r}) \cup {upd(r)}],
                   autoinc |-> [ai EXCEPT ![t] = Max(@, upd(r)["id"] + 1)]]
             ELSE WriteError(d, ai)

\* UPDATE ... WHERE: every matching row gets the SET values; no row is generated
ExecUpdate(d, ai, s) ==
    LET t == s.table
        m == Matching(d[t], s.where)
        upd(r) == [f \in names(Schema[t]) |-> IF has(s.set, f) THEN s.set[f] ELSE r[f]]
    IN  IF DOMAIN s.set = {} \/ DOMAIN s.where = {} THEN WriteError(d, ai)
        ELSE IF \A r \in m : FkOk(d, t, upd(r))
        THEN [err |-> FALSE, affectedRows |-> Cardinality(m), insertId |-> 0,
              db |-> [d EXCEPT ![t] = (@ \ m) \cup {upd(r) : r \in m}],
              autoinc |-> ai]
        ELSE WriteError(d, ai)

ExecWrite(d, ai, s) == IF s.kind = "insert" THEN ExecInsert(d, ai, s) ELSE ExecUpdate(d, ai, s)

(***************************************************************************)
(* The LIMIT clause builder (sql.limit, and its copy in load.js)           *)
(***************************************************************************)
\* a ? 1 : 0 + b ? 2 : 0 + c ? 4 : 0 parses as a ? 1 : ((0 + b) ? 2 : ((0 + c) ? 4 : 0))
lparams(criteria) ==
    IF has(criteria, "$first") THEN 1
    ELSE IF has(criteria, "$count") THEN 2
    ELSE IF has(criteria, "$last") THEN 4
    ELSE 0

NoClause == [err |-> FALSE, clause |-> FALSE, limit |-> 0, offset |-> FALSE, start |-> 0]
LimitError == [err |-> TRUE, clause |-> FALSE, limit |-> 0, offset |-> FALSE, start |-> 0]
LimitClause(n) == [err |-> FALSE, clause |-> TRUE, limit |-> n, offset |-> FALSE, start |-> 0]
LimitOffsetClause(n, m) == [err |-> FALSE, clause |-> TRUE, limit |-> n, offset |-> TRUE, start |-> m]

\* $last alone taken for no limit at all
limit_LastAlone(criteria) ==
    LET l == lparams(criteria) IN
    CASE l = 0 -> NoClause
      [] l = 1 -> LimitError
      [] l = 2 -> LimitClause(criteria["$count"])
      [] l = 3 -> LimitOffsetClause(criteria["$count"], criteria["$first"])
      [] l = 4 -> NoClause
      [] l = 5 -> LimitOffsetClause(criteria["$last"] - criteria["$first"], criteria["$first"])
      [] l = 6 -> LimitOffsetClause(criteria["$count"], criteria["$last"] - criteria["$count"])
      [] l = 7 -> LimitError

limit(criteria) ==
    LET l == lparams(criteria) IN
    CASE l = 0 -> NoClause
      [] l = 1 -> LimitError
      [] l = 2 -> LimitClause(criteria["$count"])
      [] l = 3 -> LimitOffsetClause(criteria["$count"], criteria["$first"])
      [] l = 4 -> LimitError
      [] l = 5 -> LimitOffsetClause(criteria["$last"] - criteria["$first"], criteria["$first"])
      [] l = 6 -> LimitOffsetClause(criteria["$count"], criteria["$last"] - criteria["$count"])
      [] l = 7 -> LimitError

LimitKeys == {"$first", "$last", "$count"}
LimitInputs == UNION {[S -> 0..MaxLimit] : S \in SUBSET LimitKeys}
Pending == [pending |-> TRUE]

ApplyLimit ==
    /\ limitResult = Pending
    /\ limitResult' = limit(limitCriteria)
    /\ UNCHANGED <<limitCriteria, dbVars, par, orm>>

(***************************************************************************)
(* Inputs                                                                  *)
(***************************************************************************)
EmptyObj == [k \in {} |-> NULL]

\* the objects of S, and those objects with the property key set to one of values
Extend(S, key, values) == S \cup {Assign(r, key, v) : r \in S, v \in values}

\* search criteria for a parent row: an equality on each own property
CriteriaOf == [t \in TableNames |-> UNION {[S -> Vals] : S \in SUBSET names(Schema[t])}]

\* what a row may hold for a column: a scalar, or for a foreign key also search criteria
ColumnValues(t, col) ==
    LET ref == Schema[t][col].references IN
    {Num(v) : v \in Vals} \cup
        (IF ref = NoRef THEN {} ELSE {Obj(c) : c \in CriteriaOf[ref.table]})

\* 'replace' stands for any unknown save mode
SaveModes == {"always", "new", "existing", "replace"}

RECURSIVE RowsOver(_, _)
RowsOver(t, cols) ==
    IF cols = {} THEN {EmptyObj}
    ELSE LET c == CHOOSE x \in cols : TRUE IN
         Extend(RowsOver(t, cols \ {c}), c, ColumnValues(t, c))

InputRows ==
    [t \in TableNames |->
        Extend(RowsOver(t, names(Schema[t])), "$saveMode", {Str(m) : m \in SaveModes})]

\* the stored tables the model starts from: primary keys are unique, and there is no user
\* or one user without a role
RolesTables ==
    {R \in SUBSET [id : Vals, name : Vals] : \A r1, r2 \in R : r1.id = r2.id => r1 = r2}
UsersTables == {{}, {[id |-> 1, name |-> 1, role |-> NULL]}}
RECURSIVE MaxIdOf(_)
MaxIdOf(tbl) ==
    IF tbl = {} THEN 0
    ELSE LET r == CHOOSE x \in tbl : TRUE IN Max(r.id, MaxIdOf(tbl \ {r}))

\* the rows of the batches of saveMultipleTables: named rows; a row of a table with a
\* foreign key is new or saved in the default mode, has no id, has the first name, and gives
\* its parent by name; a row of another table is saved in the default mode, or has the
\* first id and is saved as an existing row
BatchRows ==
    [t \in TableNames |->
        {r \in InputRows[t] :
            /\ has(r, "name")
            /\ has(r, "$saveMode") =>
                    IF listForeignKeys(t) # {} THEN r["$saveMode"].s = "new"
                    ELSE r["$saveMode"].s = "existing" /\ has(r, "id") /\ r["id"] = Num(1)
            /\ listForeignKeys(t) # {} => ~has(r, "id") /\ r["name"] = Num(1)
            /\ \A col \in listForeignKeys(t) :
                    has(r, col) => isObject(r[col]) /\ DOMAIN r[col].c = {"name"}}]

RowSeqs(t, n) == UNION {[1..k -> BatchRows[t]] : k \in 0..n}

\* data objects { tableName: rows, ... } in the order of their properties
InputData ==
    {<<>>}
    \cup UNION {{<<[table |-> t, rows |-> rs]>> : rs \in RowSeqs(t, MaxRows)} : t \in TableNames}
    \cup UNION {UNION {UNION {{<<[table |-> t1, rows |-> rs1], [table |-> t2, rows |-> rs2]>> :
                                    rs2 \in RowSeqs(t2, MaxRows - Len(rs1))} :
                                rs1 \in RowSeqs(t1, MaxRows)} :
                         t2 \in TableNames \ {t1}} :
                 t1 \in TableNames}

(***************************************************************************)
(* lookupForeignId / lookupForeignIds                                      *)
(***************************************************************************)
NoCallback == [n |-> 0, err |-> FALSE, arg |-> Undefined]
Callback(err, arg) == [n |-> cb.n + 1, err |-> err, arg |-> arg]

\* the error for no or several rows passed without the count
lookupForeignIdCallback_NoCount(res) ==
    IF res.err \/ res.length # 1 THEN [err |-> TRUE, arg |-> Undefined]
    ELSE [err |-> FALSE, arg |-> Num(res.value)]

\* what lookupForeignId passes to its callback for the result of its query
lookupForeignIdCallback(res) ==
    IF res.err THEN [err |-> TRUE, arg |-> Undefined]
    ELSE IF res.length # 1 THEN [err |-> TRUE, arg |-> Num(res.length)]
    ELSE [err |-> FALSE, arg |-> Num(res.value)]

\* the looked-up id is not stored in the row
resolved_NotStored(row, col, res) == row

\* the callback lookupForeignIds gives to lookupForeignId: on success row[col] = res
resolved(row, col, res) == IF res.err THEN row ELSE Assign(row, col, res.arg)

\* the columns lookupForeignIds resolves: those of cols whose value in row is an object
ObjectCols(row, cols) == {col \in cols : has(row, col) /\ isObject(row[col])}

RECURSIVE LookupQueries(_, _, _, _)
LookupQueries(t, row, i, cols) ==
    IF cols = {} THEN <<>>
    ELSE LET col == CHOOSE x \in cols : TRUE IN
         <<SelectStmt(i, col, Schema[t][col].references, row[col].c)>>
             \o LookupQueries(t, row, i, cols \ {col})

\* a row object and the position of the lookupForeignIds / save working on it
NewProc(t, row) ==
    LET cols == ObjectCols(row, listForeignKeys(t)) IN
    [row |-> row, pending |-> cols, failed |-> FALSE,
     pc |-> IF cols = {} THEN "ready" ELSE "lookup"]

\* the caller invokes lookupForeignId(field, criteria, callback)
lookupForeignId ==
    /\ call.op = "none"
    /\ \E t \in TableNames : \E col \in listForeignKeys(t) :
        \E criteria \in CriteriaOf[Schema[t][col].references.table] :
            /\ call' = [op |-> "lookupForeignId", table |-> t, col |-> col, criteria |-> criteria]
            /\ queue' = <<SelectStmt(0, col, Schema[t][col].references, criteria)>>
    /\ pre' = db
    /\ UNCHANGED <<db, autoinc, txn, txnSnap, rows, cur, phase, batchCb, cb, limitVars, par, orm>>

\* the caller invokes lookupForeignIds(table, row, callback)
lookupForeignIds ==
    /\ call.op = "none"
    /\ \E t \in TableNames : \E row \in InputRows[t] :
        LET p == NewProc(t, row) IN
        /\ call' = [op |-> "lookupForeignIds", table |-> t, row |-> row]
        /\ queue' = LookupQueries(t, row, 1, p.pending)
        /\ IF p.pc = "ready"
           THEN rows' = <<[p EXCEPT !.pc = "ok"]>> /\ cb' = Callback(FALSE, Ref(1))
           ELSE rows' = <<p>> /\ cb' = cb
    /\ pre' = db
    /\ UNCHANGED <<db, autoinc, txn, txnSnap, cur, phase, batchCb, limitVars, par, orm>>

(***************************************************************************)
(* save / saveMany / saveMultipleTables                                    *)
(***************************************************************************)
\* the table whose rows are being saved
CurTable == IF call.op = "saveMultipleTables" THEN call.data[cur].table ELSE call.table

\* sql.set: SET <key = row[key], ...>; null is written NULL
set(keys, row) == [key \in keys |-> IF row[key] = Null THEN NULL ELSE row[key].n]

\* _(names(row)).without(['id']): the value to leave out is the array ['id'], which no name
\* is identical to, so every name stays
onDuplicateKeys(row) == names(row)

\* sql.where(self, [query], table, criteria, callback).  Without the query argument it reads
\* this.query, and async.apply calls it with this === null: a TypeError.  The constraint is
\* built from res[cols], which is res[col] only when there is a single column.
where(queryGiven, criteria) ==
    IF ~queryGiven THEN [thrown |-> TRUE, clause |-> EmptyObj]
    ELSE [thrown |-> FALSE,
          clause |-> [col \in names(criteria) |->
                        IF Cardinality(names(criteria)) = 1 THEN criteria[col].n ELSE NULL]]

\* the ON DUPLICATE KEY UPDATE clause left out
saveAlways_InsertOnly(i, t, row) == InsertStmt(i, t, set(names(row), row), FALSE, {})

\* the statement save composes in mode 'always': INSERT INTO, SET, ON DUPLICATE KEY UPDATE
saveAlways(i, t, row) == InsertStmt(i, t, set(names(row), row), TRUE, onDuplicateKeys(row))

\* an ON DUPLICATE KEY UPDATE clause added
saveNew_OnDuplicate(i, t, row) == InsertStmt(i, t, set(names(row), row), TRUE, names(row))

\* the statement save composes in mode 'new': INSERT INTO, SET
saveNew(i, t, row) == InsertStmt(i, t, set(names(row), row), FALSE, {})

\* the statement save composes in mode 'existing' from the WHERE clause w: UPDATE, SET, WHERE
saveExisting(i, t, row, w) == UpdateStmt(i, t, set(names(row) \ {"id"}, row), w.clause)

\* row.$saveMode || 'always'
saveModeOf(row) == IF has(row, "$saveMode") THEN row["$saveMode"].s ELSE "always"

\* the insertId is not stored in the row
execQueryRow_NoId(row, t, res) == row

\* execQuery's callback on success: row.id = res.insertId if the table has a field id
execQueryRow(row, t, res) ==
    IF has(Schema[t], "id") THEN Assign(row, "id", Num(res.insertId)) ELSE row

\* the batches saveMultipleTables still has to start, from index k: an empty batch completes
\* at once
RECURSIVE NextTable(_)
NextTable(k) ==
    IF k > Len(call.data) THEN k
    ELSE IF call.data[k].rows = <<>> THEN NextTable(k + 1)
    ELSE k

RECURSIVE BatchQueries(_, _, _)
BatchQueries(t, procs, i) ==
    IF i > Len(procs) THEN <<>>
    ELSE LookupQueries(t, procs[i].row, i, procs[i].pending) \o BatchQueries(t, procs, i + 1)

\* async.eachSeries over the tables, from index k: saveMany starts every row save of the
\* next batch, or, after the last batch, transaction.commit is called
StartTables(k, queue1, rows1) ==
    LET n == NextTable(k) IN
    IF n > Len(call.data)
    THEN /\ queue' = Append(queue1, CommitStmt)
         /\ phase' = "commit"
         /\ rows' = rows1
         /\ cur' = n
         /\ UNCHANGED <<batchCb, cb>>
    ELSE LET t == call.data[n].table
             procs == [i \in 1..Len(call.data[n].rows) |-> NewProc(t, call.data[n].rows[i])]
         IN  /\ rows' = procs
             /\ queue' = queue1 \o BatchQueries(t, procs, 1)
             /\ cur' = n
             /\ phase' = "saving"
             /\ batchCb' = FALSE
             /\ UNCHANGED cb

\* the batch counts as complete as soon as one row has been saved
completed_Any(rows1) == \E j \in 1..Len(rows1) : rows1[j].pc = "ok"

\* async.each's count of the iterations that called back without error has reached the
\* number of rows
completed(rows1) == \A j \in 1..Len(rows1) : rows1[j].pc = "ok"

\* save invokes its callback for a row: the caller's callback, or the iteration callback of
\* saveMany's async.each, which reports the first error at once and success when every row
\* has succeeded
saveCallback(isErr, rows1, queue1) ==
    IF call.op = "save"
    THEN /\ cb' = Callback(isErr, Undefined)
         /\ rows' = rows1
         /\ queue' = queue1
         /\ UNCHANGED <<cur, phase, batchCb>>
    ELSE IF isErr
    THEN IF batchCb
         THEN /\ rows' = rows1
              /\ queue' = queue1
              /\ UNCHANGED <<cur, phase, batchCb, cb>>
         ELSE /\ batchCb' = TRUE
              /\ phase' = "rollback"
              /\ queue' = Append(queue1, RollbackStmt)
              /\ rows' = rows1
              /\ UNCHANGED <<cur, cb>>
    ELSE IF batchCb \/ ~completed(rows1)
    THEN /\ rows' = rows1
         /\ queue' = queue1
         /\ UNCHANGED <<cur, phase, batchCb, cb>>
    ELSE StartTables(cur + 1, queue1, rows1)

\* the caller invokes save(table, row, callback): the first function of the waterfall starts
\* lookupForeignIds
save ==
    /\ call.op = "none"
    /\ \E t \in TableNames : \E row \in InputRows[t] :
        /\ call' = [op |-> "save", table |-> t, row |-> row]
        /\ rows' = <<NewProc(t, row)>>
        /\ queue' = LookupQueries(t, row, 1, NewProc(t, row).pending)
    /\ pre' = db
    /\ UNCHANGED <<db, autoinc, txn, txnSnap, cur, phase, batchCb, cb, limitVars, par, orm>>

\* the second function of save's waterfall, for row i: read and delete $saveMode, build the
\* statement with the clause builders and hand it to the connection
\* (async.waterfall defers it, so it interleaves with the answers of the server; only the
\* order of the statements on the connection matters to the tables)
saveStatement(i) ==
    /\ call.op \in {"save", "saveMultipleTables"}
    /\ i \in 1..Len(rows)
    /\ rows[i].pc = "ready"
    /\ LET p == rows[i]
           t == CurTable
           saveMode == saveModeOf(p.row)
           row == Delete(p.row, "$saveMode")
           sent(stmt) == /\ rows' = [rows EXCEPT ![i] = [p EXCEPT !.row = row, !.pc = "sent"]]
                         /\ queue' = Append(queue, stmt)
                         /\ UNCHANGED <<cur, phase, batchCb, cb>>
           failed == saveCallback(TRUE, [rows EXCEPT ![i] = [p EXCEPT !.row = row, !.pc = "err"]],
                                  queue)
       IN  CASE saveMode = "always" -> sent(saveAlways(i, t, row))
             [] saveMode = "new" -> sent(saveNew(i, t, row))
             [] saveMode = "existing" ->
                    IF ~has(row, "id") THEN failed
                    ELSE LET w == where(FALSE, [id |-> row["id"]]) IN
                         IF w.thrown
                         THEN /\ rows' = [rows EXCEPT ![i] = [p EXCEPT !.row = row, !.pc = "throw"]]
                              /\ UNCHANGED <<queue, cur, phase, batchCb, cb>>
                         ELSE sent(saveExisting(i, t, row, w))
             [] OTHER -> failed
    /\ UNCHANGED <<db, autoinc, txn, txnSnap, call, pre, limitVars, par, orm>>

\* the caller invokes saveMultipleTables(data, callback): beginTransaction is called
saveMultipleTables ==
    /\ call.op = "none"
    /\ \E data \in InputData :
        call' = [op |-> "saveMultipleTables", data |-> data]
    /\ phase' = "begin"
    /\ pre' = db
    /\ UNCHANGED <<db, autoinc, txn, txnSnap, queue, rows, cur, batchCb, cb, limitVars, par, orm>>

\* beginTransaction calls back with a transaction: the batches are started
BeginOk ==
    /\ phase = "begin"
    /\ txn' = "open"
    /\ txnSnap' = db
    /\ StartTables(1, queue, rows)
    /\ UNCHANGED <<db, autoinc, call, pre, limitVars, par, orm>>

\* beginTransaction calls back with an error
BeginFail ==
    /\ phase = "begin"
    /\ phase' = "done"
    /\ cb' = Callback(TRUE, Undefined)
    /\ UNCHANGED <<db, autoinc, txn, txnSnap, queue, call, pre, rows, cur, batchCb, limitVars, par, orm>>

(***************************************************************************)
(* The server executes the statement at the head of the queue and the      *)
(* driver invokes the callback that was waiting for it                     *)
(***************************************************************************)
\* the lookup query of lookupForeignId
DbSelect ==
    /\ queue # <<>>
    /\ Head(queue).kind = "select"
    /\ LET s == Head(queue)
           res == lookupForeignIdCallback(ExecSelect(db, s))
       IN  IF s.owner = 0
           THEN \* lookupForeignId was called by the caller
                /\ cb' = Callback(res.err, res.arg)
                /\ queue' = Tail(queue)
                /\ UNCHANGED <<rows, cur, phase, batchCb>>
           ELSE \* the iterator of lookupForeignIds for column s.col of row s.owner
                LET p == rows[s.owner]
                    pending == p.pending \ {s.col}
                    row == resolved(p.row, s.col, res)
                    p1 == [p EXCEPT !.row = row, !.pending = pending, !.failed = @ \/ res.err]
                    first == ~p.failed /\ res.err
                    last == ~p1.failed /\ pending = {}
                IN  IF call.op = "lookupForeignIds"
                    THEN /\ rows' = [rows EXCEPT ![s.owner] =
                                        [p1 EXCEPT !.pc = IF first THEN "err"
                                                          ELSE IF last THEN "ok" ELSE @]]
                         /\ cb' = IF first THEN Callback(TRUE, Ref(s.owner))
                                  ELSE IF last THEN Callback(FALSE, Ref(s.owner))
                                  ELSE cb
                         /\ queue' = Tail(queue)
                         /\ UNCHANGED <<cur, phase, batchCb>>
                    ELSE IF first
                    THEN saveCallback(TRUE, [rows EXCEPT ![s.owner] = [p1 EXCEPT !.pc = "err"]],
                                      Tail(queue))
                    ELSE /\ rows' = [rows EXCEPT ![s.owner] =
                                        [p1 EXCEPT !.pc = IF last THEN "ready" ELSE @]]
                         /\ queue' = Tail(queue)
                         /\ UNCHANGED <<cur, phase, batchCb, cb>>
    /\ UNCHANGED <<db, autoinc, txn, txnSnap, call, pre, limitVars, par, orm>>

\* the INSERT or UPDATE of save, and execQuery's callback: an error or no affected row is
\* reported, otherwise the row gets the insertId
DbWrite ==
    /\ queue # <<>>
    /\ Head(queue).kind \in {"insert", "update"}
    /\ LET s == Head(queue)
           res == ExecWrite(db, autoinc, s)
           p == rows[s.owner]
           isErr == res.err \/ res.affectedRows = 0
           row == IF isErr THEN p.row ELSE execQueryRow(p.row, s.table, res)
       IN  /\ db' = res.db
           /\ autoinc' = res.autoinc
           /\ saveCallback(isErr,
                           [rows EXCEPT ![s.owner] =
                               [p EXCEPT !.row = row, !.pc = IF isErr THEN "err" ELSE "ok"]],
                           Tail(queue))
    /\ UNCHANGED <<txn, txnSnap, call, pre, limitVars, par, orm>>

\* COMMIT succeeds: saveMultipleTables reports success
CommitOk ==
    /\ queue # <<>>
    /\ Head(queue).kind = "commit"
    /\ txn' = "committed"
    /\ queue' = Tail(queue)
    /\ phase' = "done"
    /\ cb' = Callback(FALSE, Undefined)
    /\ UNCHANGED <<db, autoinc, txnSnap, call, pre, rows, cur, batchCb, limitVars, par, orm>>

\* COMMIT fails: saveMultipleTables calls transaction.rollback
CommitFail ==
    /\ queue # <<>>
    /\ Head(queue).kind = "commit"
    /\ queue' = Append(Tail(queue), RollbackStmt)
    /\ phase' = "rollback"
    /\ UNCHANGED <<db, autoinc, txn, txnSnap, call, pre, rows, cur, batchCb, cb, limitVars, par, orm>>

\* ROLLBACK: the tables are as they were when the transaction began, the connection is back
\* in autocommit mode, and saveMultipleTables reports the error
DbRollback ==
    /\ queue # <<>>
    /\ Head(queue).kind = "rollback"
    /\ db' = IF txn = "open" THEN txnSnap ELSE db
    /\ txn' = "rolledback"
    /\ queue' = Tail(queue)
    /\ phase' = "done"
    /\ cb' = Callback(TRUE, Undefined)
    /\ UNCHANGED <<autoinc, txnSnap, call, pre, rows, cur, batchCb, limitVars, par, orm>>

(***************************************************************************)
(* Specifications                                                          *)
(***************************************************************************)
InitDb ==
    /\ db \in {[roles |-> R, users |-> U] : R \in RolesTables, U \in UsersTables}
    /\ autoinc = [t \in TableNames |-> MaxIdOf(db[t]) + 1]
    /\ txn = "none"
    /\ txnSnap = db
    /\ queue = <<>>
    /\ call = [op |-> "none"]
    /\ pre = db
    /\ rows = <<>>
    /\ cur = 0
    /\ phase = "idle"
    /\ batchCb = FALSE
    /\ cb = NoCallback

Init ==
    /\ InitDb
    /\ limitCriteria = EmptyObj
    /\ limitResult = NoClause
    /\ par = NoParallel
    /\ orm = NoOrm

Next ==
    \/ lookupForeignId
    \/ lookupForeignIds
    \/ save
    \/ \E i \in 1..MaxRows : saveStatement(i)
    \/ saveMultipleTables
    \/ BeginOk
    \/ BeginFail
    \/ DbSelect
    \/ DbWrite
    \/ CommitOk
    \/ CommitFail
    \/ DbRollback

Spec == Init /\ [][Next]_vars

\* the LIMIT clause builder applied to every combination of $first, $last and $count
InitLimit ==
    /\ db = [t \in TableNames |-> {}]
    /\ autoinc = [t \in TableNames |-> 1]
    /\ txn = "none"
    /\ txnSnap = db
    /\ queue = <<>>
    /\ call = [op |-> "none"]
    /\ pre = db
    /\ rows = <<>>
    /\ cur = 0
    /\ phase = "idle"
    /\ batchCb = FALSE
    /\ cb = NoCallback
    /\ limitCriteria \in LimitInputs
    /\ limitResult = Pending
    /\ par = NoParallel
    /\ orm = NoOrm

NextLimit == ApplyLimit

SpecLimit == InitLimit /\ [][NextLimit]_vars

(***************************************************************************)
(* Properties                                                              *)
(***************************************************************************)
\* nothing is left to run: no statement is queued, no save waits for its second step, and
\* no transaction is about to begin
Quiescent ==
    /\ queue = <<>>
    /\ phase # "begin"
    /\ \A i \in 1..Len(rows) : rows[i].pc # "ready"

\* the field that the field call.col of call.table references
LookupRef == Schema[call.table][call.col].references

\* the rows of the referenced table, as stored when lookupForeignId was called, that
\* satisfy an equality on each own property of the criteria
LookupMatches ==
    {r \in pre[LookupRef.table] : \A k \in DOMAIN call.criteria : r[k] = call.criteria[k]}

ParentsOf(t, col, c) ==
    {r \in pre[Schema[t][col].references.table] : \A k \in DOMAIN c : r[k] = c[k]}

\* column col of table t is a foreign key
IsForeignKey(t, col) == Schema[t][col].references # NoRef

\* C4: when lookupForeignIds succeeds, every foreign-key field of the row whose value was an
\* object holds the id of the one parent row those criteria select, every other property
\* has the value it had, and the callback has received the row object that was passed in.
C4_LookupForeignIds ==
    (call.op = "lookupForeignIds" /\ cb.n > 0 /\ ~cb.err)
        => /\ cb.arg = Ref(1)
           /\ DOMAIN rows[1].row = DOMAIN call.row
           /\ \A k \in DOMAIN call.row :
                IF k \in names(call.row) /\ IsForeignKey(call.table, k) /\ call.row[k].k = "obj"
                THEN /\ Cardinality(ParentsOf(call.table, k, call.row[k].c)) = 1
                     /\ \E r \in ParentsOf(call.table, k, call.row[k].c) :
                            rows[1].row[k] =
                                Num(r[Schema[call.table][k].references.field])
                ELSE rows[1].row[k] = call.row[k]

\* a row with a foreign key given by criteria and other properties has been resolved
C4_Witness ==
    /\ call.op = "lookupForeignIds"
    /\ cb.n = 1
    /\ ~cb.err
    /\ has(call.row, "role")
    /\ call.row["role"].k = "obj"
    /\ rows[1].row["role"].k = "num"
    /\ has(call.row, "name")
    /\ has(call.row, "$saveMode")

\* a row whose foreign key is a raw id has passed through lookupForeignIds
C4_WitnessScalar ==
    /\ call.op = "lookupForeignIds"
    /\ cb.n = 1
    /\ ~cb.err
    /\ has(call.row, "role")
    /\ call.row["role"].k = "num"

\* the values column k of table t may have once row has been saved: the property's number,
\* or for criteria the key of a parent row they select
SavedValues(t, row, k) ==
    IF IsForeignKey(t, k) /\ row[k].k = "obj"
    THEN {r[Schema[t][k].references.field] : r \in ParentsOf(t, k, row[k].c)}
    ELSE {row[k].n}

\* nothing stands in the way of saving row to table t: it names a column, every criteria
\* object names a column and selects one parent row, and every raw foreign id is the key of a
\* parent row
Saveable(t, row) ==
    /\ names(row) # {}
    /\ \A k \in names(row) :
        IsForeignKey(t, k) =>
            IF row[k].k = "obj"
            THEN DOMAIN row[k].c # {} /\ Cardinality(ParentsOf(t, k, row[k].c)) = 1
            ELSE \E r \in pre[Schema[t][k].references.table] :
                    r[Schema[t][k].references.field] = row[k].n

\* the rows that had the id of the row being saved when save was called
OldRows ==
    IF has(call.row, "id") THEN {q \in pre[call.table] : q.id = call.row["id"].n} ELSE {}

\* the $saveMode save was called with
CallMode == IF has(call.row, "$saveMode") THEN call.row["$saveMode"].s ELSE "absent"

\* r is call.row as a stored row that no stored row had the id of
InsertedRow(r) ==
    /\ \A q \in pre[call.table] : q.id # r.id
    /\ \A k \in names(call.row) : r[k] \in SavedValues(call.table, call.row, k)
    /\ \A k \in names(Schema[call.table]) \ (names(call.row) \cup {"id"}) : r[k] = NULL

\* r is the stored row old with the properties of call.row written over it
UpdatedRow(r, old, keys) ==
    \A k \in names(Schema[call.table]) :
        r[k] \in IF k \in keys THEN SavedValues(call.table, call.row, k) ELSE {old[k]}

\* another stored row than the one with the id of the row being saved has its value of a
\* UNIQUE column
UniqueClash ==
    \E q \in pre[call.table] : \E u \in UniqueCols(call.table) :
        /\ has(call.row, u)
        /\ q[u] = call.row[u].n
        /\ has(call.row, "id") => q.id # call.row["id"].n

\* one new row has been inserted for the row being saved, and the caller's row object has
\* its id
InsertedWithId ==
    \E r \in db[call.table] :
        /\ InsertedRow(r)
        /\ db = [pre EXCEPT ![call.table] = @ \cup {r}]
        /\ has(rows[1].row, "id")
        /\ rows[1].row["id"] = Num(r.id)

InsertedOrUpdated ==
    /\ (Quiescent /\ Saveable(call.table, call.row)) => (cb.n = 1 /\ ~cb.err)
    /\ (cb.n > 0 /\ ~cb.err) =>
        IF OldRows = {}
        THEN \E r \in db[call.table] :
                /\ InsertedRow(r)
                /\ db = [pre EXCEPT ![call.table] = @ \cup {r}]
        ELSE \E old \in OldRows : \E r \in db[call.table] :
                /\ UpdatedRow(r, old, names(call.row))
                /\ db = [pre EXCEPT ![call.table] = (@ \ {old}) \cup {r}]

C6_WitnessInsert ==
    /\ call.op = "save"
    /\ CallMode \in {"absent", "always"}
    /\ ~UniqueClash
    /\ has(call.row, "id")
    /\ OldRows = {}
    /\ cb.n = 1
    /\ ~cb.err

\* C7: save with $saveMode 'new' of a row whose id a stored row already has reports an
\* error, and leaves that row and the rest of the tables unchanged.
C7_SaveNewDuplicate ==
    (call.op = "save" /\ CallMode = "new" /\ OldRows # {})
        => /\ db = pre
           /\ cb.n > 0 => cb.err
           /\ Quiescent => cb.n = 1

\* the INSERT of a row with the id of a stored row has been refused
C7_Witness ==
    /\ call.op = "save"
    /\ CallMode = "new"
    /\ OldRows # {}
    /\ Saveable(call.table, call.row)
    /\ rows[1].pc = "err"
    /\ cb.n = 1
    /\ cb.err

\* C8 as stated: save with $saveMode 'existing' sets the non-id fields of the row that has
\* row.id and inserts nothing; if no row has that id, or the row has no id, it reports an
\* error through its callback and the table is unchanged.
C8_AsStated ==
    (call.op = "save" /\ CallMode = "existing" /\ Quiescent)
        => /\ (OldRows # {} /\ Saveable(call.table, call.row) /\ names(call.row) # {"id"})
                => /\ cb.n = 1
                   /\ ~cb.err
                   /\ \E old \in OldRows : \E r \in db[call.table] :
                        /\ UpdatedRow(r, old, names(call.row) \ {"id"})
                        /\ db = [pre EXCEPT ![call.table] = (@ \ {old}) \cup {r}]
           /\ OldRows = {} => (cb.n = 1 /\ cb.err /\ db = pre)

\* C9 as stated: once save has invoked its callback, with success or with an error, the row
\* object has no $saveMode property, and no statement sets a column $saveMode.
C9_AsStated ==
    /\ (call.op = "save" /\ cb.n > 0) => ~has(rows[1].row, "$saveMode")
    /\ \A j \in 1..Len(queue) :
        queue[j].kind \in {"insert", "update"} => ~has(queue[j].set, "$saveMode")

\* C10 as stated: the LIMIT clause builder produces no clause with none of $first, $last and
\* $count, LIMIT $count with $count alone, LIMIT $count OFFSET $first with $count and
\* $first, LIMIT ($last - $first) OFFSET $first with $first and $last, and
\* LIMIT $count OFFSET ($last - $count) with $count and $last.
C10_AsStated ==
    limitResult # Pending =>
        LET c == limitCriteria
            given == DOMAIN c
        IN  /\ given = {} => limitResult = NoClause
            /\ given = {"$count"} => limitResult = LimitClause(c["$count"])
            /\ given = {"$count", "$first"}
                => limitResult = LimitOffsetClause(c["$count"], c["$first"])
            /\ given = {"$first", "$last"}
                => limitResult = LimitOffsetClause(c["$last"] - c["$first"], c["$first"])
            /\ given = {"$count", "$last"}
                => limitResult = LimitOffsetClause(c["$count"], c["$last"] - c["$count"])

\* row i of batch k of the data object is stored: a stored row has its id if it has one,
\* or has its values, a criteria object standing for the key of a parent row it selects
\* before or after the call, or has been written over by another row of the batch that
\* names its id or its value of a UNIQUE column
Stored(k, i) ==
    LET t == call.data[k].table
        batch == call.data[k].rows
        row == batch[i]
        parent == [c \in {c \in names(row) : IsForeignKey(t, c)} |->
                    Schema[t][c].references.table]
        parents(c) == {q \in db[parent[c]] \cup pre[parent[c]] :
                        \A f \in DOMAIN row[c].c : q[f] = row[c].c[f]}
        values(c) == IF IsForeignKey(t, c) /\ row[c].k = "obj"
                     THEN {q[Schema[t][c].references.field] : q \in parents(c)}
                     ELSE {row[c].n}
    IN  \E r \in db[t] :
            \/ has(row, "id") /\ r.id = row["id"].n
            \/ \A c \in names(row) : r[c] \in values(c)
            \/ \E j \in (1..Len(batch)) \ {i} :
                \/ has(batch[j], "id") /\ batch[j]["id"].n = r.id
                \/ \E u \in UniqueCols(t) :
                    has(batch[j], u) /\ has(row, u) /\ batch[j][u] = row[u] /\ r[u] = row[u].n

\* every row of every table of the data object is stored
AllStored ==
    \A k \in 1..Len(call.data) : \A i \in 1..Len(call.data[k].rows) :
        Stored(k, i)

\* C1 as stated: once saveMultipleTables has reported an error to its callback the tables
\* equal their state before the call, whatever the row saves it started do afterwards, and
\* once it has reported success every row of every listed table is stored.
C1_AsStated ==
    (call.op = "saveMultipleTables" /\ cb.n > 0)
        => IF cb.err THEN db = pre ELSE AllStored

\* the half of C1 about success
C1_SuccessStored ==
    (call.op = "saveMultipleTables" /\ cb.n > 0 /\ ~cb.err) => AllStored

\* a row whose lookup was under way when another row's lookup failed is inserted after the
\* rollback
C1_Leak ==
    /\ call.op = "saveMultipleTables"
    /\ Len(call.data) = 1
    /\ \A i \in 1..Len(call.data[1].rows) : has(call.data[1].rows[i], "role")
    /\ cb.n = 1
    /\ cb.err
    /\ txn = "rolledback"
    /\ db # pre

\* C11 as stated: with all three of $first, $last and $count, or with exactly one of them,
\* the LIMIT clause builder reports an error and produces no clause.
C11_AsStated ==
    (limitResult # Pending /\ Cardinality(DOMAIN limitCriteria) \in {1, 3})
        => limitResult = LimitError

\* C11 amended: with all three of $first, $last and $count, or with $first alone or $last
\* alone, the LIMIT clause builder reports an error and produces no clause.
C11_LimitRejects ==
    (/\ limitResult # Pending
     /\ \/ DOMAIN limitCriteria = LimitKeys
        \/ DOMAIN limitCriteria = {"$first"}
        \/ DOMAIN limitCriteria = {"$last"})
        => (limitResult.err /\ ~limitResult.clause)

\* the builder has been applied to $last alone
C11_Witness ==
    /\ limitResult = LimitError
    /\ DOMAIN limitCriteria = {"$last"}

(***************************************************************************)
(* Statements composed of clause fragments: loadMany, load and delete.     *)
(* A statement is the sequence of the fragments its clause builders gave,  *)
(* in the order they are joined; the server refuses a sequence that is not *)
(* a SELECT or DELETE statement.                                           *)
(***************************************************************************)
\* a builder calls back with no clause: callback(null)
NoFragment == [c |-> "none"]
\* a builder calls back with an error
BuilderError == [c |-> "error"]
\* a result async.parallel has not stored yet
Unset == [c |-> "unset"]
IsFragment(f) == f.c \notin {"none", "error", "unset"}

\* select: 'SELECT *', or the fields of $fields
selectClause(criteria) ==
    IF has(criteria, "$fields") THEN [c |-> "SELECT", fields |-> criteria["$fields"]]
    ELSE [c |-> "SELECT", fields |-> "*"]
\* sql.delete
deleteClause == [c |-> "DELETE"]
\* from: the table is a table of the schema
from(t) == [c |-> "FROM", table |-> t]
\* where, called with the query function: no clause without a column, else the equalities
\* it writes for the looked-up criteria, joined with commas
whereClause(criteria) ==
    IF names(criteria) = {} THEN NoFragment
    ELSE [c |-> "WHERE", eq |-> where(TRUE, criteria).clause]
\* mysql.escapeId(orderby): the argument is the builder function, not the name.  An
\* escapeId that calls val.replace throws a TypeError, one that converts val with String
\* first makes an identifier of the text of the function.
EscapedFunction == [id |-> <<"function orderby">>, dir |-> ""]

\* what the function that orderby maps over the entries of $sort does with one entry: an
\* object that is no field reference gets the callback called with an error and leaves
\* undefined in the array; a name is written with DESC after '-', with ASC after '+'
orderbyField(field, strict) ==
    IF field.k = "obj"
    THEN [kind |-> "error", text |-> [id |-> <<>>, dir |-> ""]]
    ELSE LET name == IF field.k = "field" THEN <<field.f>> ELSE field.s IN
         IF name # <<>> /\ Head(name) = "-"
         THEN [kind |-> "text", text |-> [id |-> Tail(name), dir |-> "DESC"]]
         ELSE IF name # <<>> /\ Head(name) = "+"
         THEN [kind |-> "text", text |-> [id |-> Tail(name), dir |-> "ASC"]]
         ELSE IF strict THEN [kind |-> "throw", text |-> EscapedFunction]
         ELSE [kind |-> "text", text |-> EscapedFunction]

\* criteria.$sort, else table.$sort, else null
sortOf(table, criteria) ==
    IF has(criteria, "$sort") THEN criteria["$sort"]
    ELSE IF has(table, "$sort") THEN table["$sort"]
    ELSE Null

\* sort !== null && sort.length: a string and an array have a length, an object has none
hasLength(sort) ==
    CASE sort.k = "str" -> sort.s # <<>>
      [] sort.k = "arr" -> sort.a # <<>>
      [] OTHER -> FALSE

\* orderby(self, table, criteria, callback): the values the callback is called with, in
\* the order of the calls, and whether orderby ends with an exception.  strict says which
\* escapeId the mysql module has.
orderby(table, criteria, strict) ==
    LET sort == sortOf(table, criteria) IN
    IF ~hasLength(sort) THEN [calls |-> <<NoFragment>>, thrown |-> FALSE]
    ELSE LET fields == IF sort.k = "str" THEN <<sort>> ELSE sort.a
             mapped == [i \in 1..Len(fields) |-> orderbyField(fields[i], strict)]
             thrown == \E i \in 1..Len(fields) : mapped[i].kind = "throw"
             last == IF thrown
                     THEN (CHOOSE i \in 1..Len(fields) :
                            /\ mapped[i].kind = "throw"
                            /\ \A j \in 1..(i - 1) : mapped[j].kind # "throw") - 1
                     ELSE Len(fields)
             errors == Cardinality({i \in 1..last : mapped[i].kind = "error"})
         IN  [calls |-> [i \in 1..errors |-> BuilderError]
                            \o (IF thrown THEN <<>>
                                ELSE <<[c |-> "ORDER BY",
                                        sort |-> [i \in 1..Len(fields) |-> mapped[i].text]]>>),
              thrown |-> thrown]

\* the value orderby calls back first, for the table t of the schema
orderbyClause(t, criteria) == orderby(Schema[t], criteria, FALSE).calls[1]
\* the $first, $last and $count of criteria, as limit reads them
LimitPart(criteria) == [k \in DOMAIN criteria \cap LimitKeys |-> criteria[k].n]
\* limit, as the builder of a statement
limitClause(criteria) ==
    LET l == limit(LimitPart(criteria)) IN
    IF l.err THEN BuilderError
    ELSE IF ~l.clause THEN NoFragment
    ELSE [c |-> "LIMIT", n |-> l.limit, offset |-> IF l.offset THEN l.start ELSE 0]

\* the final callback of async.parallel on the results of all builders, by index:
\* _(sqlParts).compact().join('\n')
compose(results) == SelectSeq(results, IsFragment)

\* the place of a clause in a statement
ClauseRank(c) ==
    CASE c \in {"SELECT", "DELETE", "INSERT INTO", "UPDATE"} -> 1
      [] c \in {"FROM", "SET"} -> 2
      [] c = "WHERE" -> 3
      [] c = "ORDER BY" -> 4
      [] c = "LIMIT" -> 5
      [] OTHER -> 6

\* the fragment of statement sql for clause c
Frag(sql, c) ==
    LET I == {i \in 1..Len(sql) : sql[i].c = c} IN
    IF I = {} THEN NoFragment ELSE sql[CHOOSE i \in I : TRUE]

\* the server accepts the statement: SELECT or DELETE, FROM, then WHERE, ORDER BY and LIMIT
\* in this order; a WHERE of several comma-joined equalities and a negative LIMIT or OFFSET
\* are syntax errors, and a column the table does not have is unknown
WellFormed(sql) ==
    /\ Len(sql) >= 2
    /\ sql[1].c \in {"SELECT", "DELETE"}
    /\ sql[2].c = "FROM"
    /\ \A i, j \in 1..Len(sql) : i < j => ClauseRank(sql[i].c) < ClauseRank(sql[j].c)
    /\ Frag(sql, "WHERE") # NoFragment => Cardinality(DOMAIN Frag(sql, "WHERE").eq) = 1
    /\ Frag(sql, "WHERE") # NoFragment
        => DOMAIN Frag(sql, "WHERE").eq \subseteq DOMAIN Schema[sql[2].table]
    /\ Frag(sql, "LIMIT") # NoFragment
        => Frag(sql, "LIMIT").n >= 0 /\ Frag(sql, "LIMIT").offset >= 0

\* the rows of the table of the statement that its WHERE selects; nothing equals NULL
Selected(d, sql) ==
    LET w == Frag(sql, "WHERE")
        tbl == d[sql[2].table]
    IN  IF w = NoFragment THEN tbl
        ELSE IF \E k \in DOMAIN w.eq : w.eq[k] = NULL THEN {}
        ELSE Matching(tbl, w.eq)

\* the results a SELECT may have: without ORDER BY the rows come in any order, so LIMIT and
\* OFFSET leave any of the selected rows, as many as fit
ResultSets(d, sql) ==
    LET m == Selected(d, sql)
        l == Frag(sql, "LIMIT")
        size == IF l = NoFragment THEN Cardinality(m)
                ELSE Min(l.n, Max(0, Cardinality(m) - l.offset))
    IN  {S \in SUBSET m : Cardinality(S) = size}

\* a statement composed of fragments, as handed to the connection
SqlStmt(sql) == [kind |-> "sql", sql |-> sql]
\* SELECT * FROM <table> WHERE <field> = <id>, sent by lookupForeignRow for column col of
\* row owner
RowSelectStmt(owner, col, ref, id) ==
    [kind |-> "rowselect", owner |-> owner, col |-> col, table |-> ref.table,
     field |-> ref.field, id |-> id]

\* a row object, as a value
RowVal(row) == [k |-> "row", r |-> row]
\* a stored row as the driver returns it
JsRow(r) == [c \in DOMAIN r |-> IF r[c] = NULL THEN Null ELSE Num(r[c])]

RECURSIVE SetToSeq(_)
SetToSeq(S) ==
    IF S = {} THEN <<>>
    ELSE LET x == CHOOSE x \in S : TRUE IN <<x>> \o SetToSeq(S \ {x})

\* the criteria object load and delete make of IdOrCriteria: a number is the id, an object
\* is copied property by property
getCriteria(IdOrCriteria) ==
    IF IdOrCriteria.k = "num" THEN [id |-> IdOrCriteria] ELSE IdOrCriteria.c

\* load's criteria: delete criteria.$first, delete criteria.$last, criteria.$limit = 2
loadCriteria(IdOrCriteria) ==
    Assign(Delete(Delete(getCriteria(IdOrCriteria), "$first"), "$last"), "$limit", Num(2))

\* the criteria object loadMany works on: {} for null, { id: criteria } for a number, else
\* the object it was given
loadManyCriteria(criteria) ==
    IF criteria = Null THEN EmptyObj
    ELSE IF criteria.k = "num" THEN [id |-> criteria]
    ELSE criteria.c

\* loadMany: var lookup = !_(criteria).has('$lookup') || criteria.$lookup
lookupOption(criteria) == ~has(criteria, "$lookup") \/ criteria["$lookup"].b

\* the object where works on is the object the caller passed: loadMany passes its criteria
\* on, load and delete (getCriteria) copy them into a new object first
shared(op, arg) == op = "loadMany" /\ isObject(arg)

\* what the operation was called with, the criteria object its builders get, the caller's
\* object as it is now, and loadMany's lookup
QueryCall(op, t, arg, criteria) ==
    [op |-> op, table |-> t, arg |-> arg, criteria |-> criteria,
     own |-> IF isObject(arg) THEN arg.c ELSE EmptyObj,
     lookup |-> lookupOption(criteria)]

\* lookupForeignIds has set row[col] in the criteria object, which now is row
Resolve(c, row) ==
    [c EXCEPT !.criteria = row, !.own = IF shared(c.op, c.arg) THEN row ELSE @]

\* the results of the clause builders of loadMany and of delete, by index
Builders(op, t, criteria) ==
    IF op # "delete"
    THEN <<selectClause(criteria), from(t), whereClause(criteria), orderbyClause(t, criteria),
           limitClause(criteria)>>
    ELSE <<deleteClause, from(t), whereClause(criteria)>>

\* the builders that call back before the lookups of where are answered
SyncBuilders(op, t, criteria) ==
    IF op # "delete"
    THEN <<selectClause(criteria), from(t), orderbyClause(t, criteria), limitClause(criteria)>>
    ELSE <<deleteClause, from(t)>>

BuilderFailed(results) == \E i \in 1..Len(results) : results[i] = BuilderError

\* where starts lookupForeignIds on the criteria, for the columns names(criteria)
WhereProc(criteria) ==
    LET cols == ObjectCols(criteria, names(criteria)) IN
    [row |-> criteria, pending |-> cols, failed |-> FALSE,
     pc |-> IF cols = {} THEN "ready" ELSE "lookup"]

\* loadMany and delete start their clause builders with async.parallel: an error of a
\* builder is reported at once, the statement is sent when where needs no lookup
StartBuilders(op, t, criteria) ==
    LET p == WhereProc(criteria)
        lookups == LookupQueries(t, criteria, 1, p.pending)
    IN  /\ rows' = <<p>>
        /\ IF BuilderFailed(SyncBuilders(op, t, criteria))
           THEN /\ cb' = Callback(TRUE, Undefined)
                /\ phase' = "failed"
                /\ queue' = lookups
           ELSE IF p.pending # {}
           THEN /\ cb' = cb
                /\ phase' = "where"
                /\ queue' = lookups
           ELSE /\ cb' = cb
                /\ phase' = "query"
                /\ queue' = <<SqlStmt(compose(Builders(op, t, criteria)))>>

\* the values load and delete are called with: an id, or criteria with scalars, a parent
\* given by name, and LIMIT specifiers
QueryLimits ==
    {EmptyObj,
     [k \in {"$count"} |-> Num(1)],
     [k \in {"$count"} |-> Num(MaxLimit)],
     [k \in {"$first", "$last"} |-> Num(1)],
     [k \in {"$first", "$count"} |-> Num(1)]}
QueryColumnValues(t, col) ==
    {v \in ColumnValues(t, col) : isObject(v) => DOMAIN v.c = {"name"}}
RECURSIVE QueryCriteria(_, _)
QueryCriteria(t, cols) ==
    IF cols = {} THEN {EmptyObj}
    ELSE LET c == CHOOSE x \in cols : TRUE IN
         Extend(QueryCriteria(t, cols \ {c}), c, QueryColumnValues(t, c))
QueryInputs ==
    [t \in QueryTables |->
        {Num(v) : v \in Vals}
        \cup {Obj(c @@ l) : c \in QueryCriteria(t, names(Schema[t])), l \in QueryLimits}]

\* what loadMany is called with: null, an id, or criteria with $lookup or LIMIT specifiers
LookupOptions == {EmptyObj} \cup {[k \in {"$lookup"} |-> Bool(b)] : b \in BOOLEAN}
LoadManyInputs ==
    [t \in QueryTables |->
        {Null} \cup {Num(v) : v \in Vals}
        \cup {Obj(c @@ l) : c \in QueryCriteria(t, names(Schema[t])),
                            l \in LookupOptions \cup {[k \in {"$count"} |-> Num(1)]}}]

\* what delete is called with: an id or criteria
DeleteInputs ==
    [t \in QueryTables |->
        {Num(v) : v \in Vals} \cup {Obj(c) : c \in QueryCriteria(t, names(Schema[t]))}]

\* the caller invokes load(table, IdOrCriteria, callback), which calls loadMany
load ==
    /\ call.op = "none"
    /\ \E t \in QueryTables : \E IdOrCriteria \in QueryInputs[t] :
        /\ call' = QueryCall("load", t, IdOrCriteria, loadCriteria(IdOrCriteria))
        /\ StartBuilders("load", t, loadCriteria(IdOrCriteria))
    /\ pre' = db
    /\ UNCHANGED <<db, autoinc, txn, txnSnap, cur, batchCb, limitVars, par, orm>>

\* the caller invokes loadMany(table, criteria, callback)
loadMany ==
    /\ call.op = "none"
    /\ \E t \in QueryTables : \E criteria \in LoadManyInputs[t] :
        /\ call' = QueryCall("loadMany", t, criteria, loadManyCriteria(criteria))
        /\ StartBuilders("loadMany", t, loadManyCriteria(criteria))
    /\ pre' = db
    /\ UNCHANGED <<db, autoinc, txn, txnSnap, cur, batchCb, limitVars, par, orm>>

\* the caller invokes delete(table, IdOrCriteria, callback)
delete ==
    /\ call.op = "none"
    /\ \E t \in QueryTables : \E IdOrCriteria \in DeleteInputs[t] :
        /\ call' = QueryCall("delete", t, IdOrCriteria, getCriteria(IdOrCriteria))
        /\ StartBuilders("delete", t, getCriteria(IdOrCriteria))
    /\ pre' = db
    /\ UNCHANGED <<db, autoinc, txn, txnSnap, cur, batchCb, limitVars, par, orm>>

\* the README's reading: no row found is an error too
loadCallback_ErrorIfNone(rows1) ==
    IF Len(rows1) = 1 THEN [err |-> FALSE, arg |-> RowVal(rows1[1].row)]
    ELSE [err |-> TRUE, arg |-> Undefined]

\* what load passes to its callback for the rows of loadMany: null for no row, the row for
\* one, an error for more
loadCallback(rows1) ==
    IF Len(rows1) = 0 THEN [err |-> FALSE, arg |-> Null]
    ELSE IF Len(rows1) = 1 THEN [err |-> FALSE, arg |-> RowVal(rows1[1].row)]
    ELSE [err |-> TRUE, arg |-> Undefined]

\* an array of row objects, as a value
RowsVal(rows1) == [k |-> "rows", rows |-> [i \in 1..Len(rows1) |-> rows1[i].row]]

\* loadMany's callback gets the rows; when load called loadMany they go through the callback
\* of load
loadManyCallback(rows1) ==
    IF call.op = "load" THEN loadCallback(rows1)
    ELSE [err |-> FALSE, arg |-> RowsVal(rows1)]

\* the server answers a lookup of where's lookupForeignIds: the first failed lookup is
\* reported as the error of the builder, the last answered one sends the statement
DbWhereLookup ==
    /\ call.op \in {"load", "loadMany", "delete"}
    /\ queue # <<>>
    /\ Head(queue).kind = "select"
    /\ LET s == Head(queue)
           res == lookupForeignIdCallback(ExecSelect(db, s))
           p == rows[1]
           pending == p.pending \ {s.col}
           row == resolved(p.row, s.col, res)
           p1 == [p EXCEPT !.row = row, !.pending = pending, !.failed = @ \/ res.err]
           first == ~p.failed /\ res.err
           last == ~p1.failed /\ pending = {}
       IN  IF phase # "where"
           THEN /\ rows' = <<p1>>
                /\ queue' = Tail(queue)
                /\ UNCHANGED <<phase, cb>>
           ELSE IF first
           THEN /\ rows' = <<[p1 EXCEPT !.pc = "err"]>>
                /\ queue' = Tail(queue)
                /\ phase' = "failed"
                /\ cb' = Callback(TRUE, Undefined)
           ELSE IF last
           THEN /\ rows' = <<[p1 EXCEPT !.pc = "ready"]>>
                /\ queue' = Append(Tail(queue),
                                   SqlStmt(compose(Builders(call.op, call.table, row))))
                /\ phase' = "query"
                /\ cb' = cb
           ELSE /\ rows' = <<p1>>
                /\ queue' = Tail(queue)
                /\ UNCHANGED <<phase, cb>>
    /\ call' = Resolve(call, rows'[1].row)
    /\ UNCHANGED <<db, autoinc, txn, txnSnap, pre, cur, batchCb, limitVars, par, orm>>

\* the row lookupForeignRows works on, for a stored row of table t: every foreign key that
\* is a number is looked up
LoadedProc(t, r) ==
    LET cols == {col \in listForeignKeys(t) : r[col] # NULL} IN
    [row |-> JsRow(r), pending |-> cols, failed |-> FALSE,
     pc |-> IF cols = {} THEN "ok" ELSE "lookup"]

\* lookupForeignRows is started on every row, whatever $lookup says
LoadedProcs_Always(t, res, lookup) == [i \in 1..Len(res) |-> LoadedProc(t, res[i])]

\* the rows of the result: with lookup lookupForeignRows is started on every row, without
\* it the rows are called back as they are
LoadedProcs(t, res, lookup) ==
    [i \in 1..Len(res) |->
        IF lookup THEN LoadedProc(t, res[i])
        ELSE [row |-> JsRow(res[i]), pending |-> {}, failed |-> FALSE, pc |-> "ok"]]

RECURSIVE RowLookupQueries(_, _, _)
RowLookupQueries(t, procs, i) ==
    IF i > Len(procs) THEN <<>>
    ELSE LET cols == SetToSeq(procs[i].pending) IN
         [j \in 1..Len(cols) |->
            RowSelectStmt(i, cols[j], Schema[t][cols[j]].references, procs[i].row[cols[j]].n)]
            \o RowLookupQueries(t, procs, i + 1)

\* the server answers the SELECT of loadMany: an error is reported; else lookupForeignRows
\* is started on every row, and with nothing to look up load gets the rows at once
DbLoad ==
    /\ call.op \in {"load", "loadMany"}
    /\ queue # <<>>
    /\ Head(queue).kind = "sql"
    /\ LET sql == Head(queue).sql IN
       IF ~WellFormed(sql)
       THEN /\ cb' = Callback(TRUE, Undefined)
            /\ phase' = "failed"
            /\ queue' = Tail(queue)
            /\ rows' = rows
       ELSE \E S \in ResultSets(db, sql) :
            LET res == SetToSeq(S)
                procs == LoadedProcs(call.table, res, call.lookup)
                lookups == RowLookupQueries(call.table, procs, 1)
            IN  /\ rows' = procs
                /\ queue' = Tail(queue) \o lookups
                /\ IF lookups = <<>>
                   THEN /\ phase' = "loaded"
                        /\ cb' = Callback(loadManyCallback(procs).err,
                                          loadManyCallback(procs).arg)
                   ELSE /\ phase' = "lookup"
                        /\ cb' = cb
    /\ UNCHANGED <<db, autoinc, txn, txnSnap, call, pre, cur, batchCb, limitVars, par, orm>>

\* the server answers the query of lookupForeignRow: the one row it found replaces the id
\* in the loaded row, and when every lookup is done load gets the rows.  With no row or
\* several rows lookupForeignRow reads the undeclared name criteria: a ReferenceError.
DbLookupRow ==
    /\ call.op \in {"load", "loadMany"}
    /\ queue # <<>>
    /\ Head(queue).kind = "rowselect"
    /\ LET s == Head(queue)
           m == {r \in db[s.table] : r[s.field] = s.id}
           p == rows[s.owner]
       IN  IF Cardinality(m) # 1
           THEN /\ rows' = [rows EXCEPT ![s.owner] = [p EXCEPT !.pc = "throw"]]
                /\ phase' = "thrown"
                /\ cb' = cb
           ELSE LET parent == CHOOSE r \in m : TRUE
                    pending == p.pending \ {s.col}
                    rows1 == [rows EXCEPT ![s.owner] =
                                [p EXCEPT !.row = Assign(p.row, s.col, RowVal(JsRow(parent))),
                                          !.pending = pending,
                                          !.pc = IF pending = {} THEN "ok" ELSE @]]
                IN  /\ rows' = rows1
                    /\ IF phase = "lookup" /\ \A i \in 1..Len(rows1) : rows1[i].pc = "ok"
                       THEN /\ phase' = "loaded"
                            /\ cb' = Callback(loadManyCallback(rows1).err,
                                              loadManyCallback(rows1).arg)
                       ELSE UNCHANGED <<phase, cb>>
    /\ queue' = Tail(queue)
    /\ UNCHANGED <<db, autoinc, txn, txnSnap, call, pre, cur, batchCb, limitVars, par, orm>>

\* the rows of the stored tables d whose foreign key holds the key of a row of rs, which
\* are rows of table t
Referencing(d, t, rs) ==
    UNION {UNION {{u \in d[t2] :
                    /\ Schema[t2][col].references.table = t
                    /\ \E r \in rs : u[col] = r[Schema[t2][col].references.field]} :
                  col \in listForeignKeys(t2)} :
           t2 \in TableNames}

\* the server answers the DELETE of delete: an error is reported, among them the one for
\* a row that a foreign key of another row refers to; else the rows are gone and the
\* callback gets their number
DbDelete ==
    /\ call.op = "delete"
    /\ queue # <<>>
    /\ Head(queue).kind = "sql"
    /\ LET sql == Head(queue).sql IN
       IF ~WellFormed(sql) \/ Referencing(db, sql[2].table, Selected(db, sql)) # {}
       THEN /\ cb' = Callback(TRUE, Undefined)
            /\ phase' = "failed"
            /\ db' = db
       ELSE /\ db' = [db EXCEPT ![sql[2].table] = @ \ Selected(db, sql)]
            /\ phase' = "deleted"
            /\ cb' = Callback(FALSE, Num(Cardinality(Selected(db, sql))))
    /\ queue' = Tail(queue)
    /\ UNCHANGED <<autoinc, txn, txnSnap, call, pre, rows, cur, batchCb, limitVars, par, orm>>

\* the stored tables load and delete start from: primary keys and the names of users are
\* unique, and the role of a user is a stored role or NULL
QueryUsersTables(R) ==
    {{}} \cup {{[id |-> 1, name |-> n, role |-> r]} :
                n \in Vals, r \in {NULL} \cup {q.id : q \in R}}

InitQuery ==
    /\ db \in UNION {{[roles |-> R, users |-> U, tags |-> [code : Vals]] :
                            U \in QueryUsersTables(R)} :
                        R \in RolesTables}
    /\ autoinc = [t \in TableNames |-> MaxIdOf(db[t]) + 1]
    /\ txn = "none"
    /\ txnSnap = db
    /\ queue = <<>>
    /\ call = [op |-> "none"]
    /\ pre = db
    /\ rows = <<>>
    /\ cur = 0
    /\ phase = "idle"
    /\ batchCb = FALSE
    /\ cb = NoCallback
    /\ limitCriteria = EmptyObj
    /\ limitResult = NoClause
    /\ par = NoParallel
    /\ orm = NoOrm

NextQuery ==
    \/ load
    \/ loadMany
    \/ delete
    \/ DbWhereLookup
    \/ DbLoad
    \/ DbLookupRow
    \/ DbDelete

SpecQuery == InitQuery /\ [][NextQuery]_vars

\* the stored rows that the id or criteria load was called with select: every column has
\* the given value, or for criteria of a parent the key of a parent row they select
LoadMatches ==
    LET t == call.table
        criteria == getCriteria(call.arg)
    IN  {r \in pre[t] :
            \A col \in names(criteria) :
                IF isObject(criteria[col])
                THEN r[col] \in {q[Schema[t][col].references.field] :
                                    q \in ParentsOf(t, col, criteria[col].c)}
                ELSE r[col] = criteria[col].n}

\* load has yielded the stored row r, its foreign keys replaced by the parent rows
Yields(r) ==
    /\ ~cb.err
    /\ cb.arg.k = "row"
    /\ \A col \in DOMAIN r :
        IF IsForeignKey(call.table, col) /\ r[col] # NULL
        THEN /\ cb.arg.r[col].k = "row"
             /\ cb.arg.r[col].r["id"] = Num(r[col])
        ELSE cb.arg.r[col] = JsRow(r)[col]

\* C12 as stated: load yields the row when exactly one row matches, an error when more than
\* one row matches and null without an error when no row matches, whatever $first, $last or
\* $count the criteria hold.
C12_AsStated ==
    call.op = "load"
        => /\ queue = <<>> => cb.n = 1
           /\ cb.n > 0 =>
                IF Cardinality(LoadMatches) = 1 THEN \E r \in LoadMatches : Yields(r)
                ELSE IF Cardinality(LoadMatches) > 1 THEN cb.err
                ELSE ~cb.err /\ cb.arg = Null

C13_WitnessSeveral ==
    /\ call.op = "load"
    /\ phase = "loaded"
    /\ Len(rows) > 1
    /\ cb.n = 1

(***************************************************************************)
(* The schema the caller hands to mysql_orm.create, and its normalization. *)
(* A string is the sequence of its pieces, with ",", ":" and " " pieces of *)
(* their own, so that split and trim are computed as the code computes     *)
(* them.  A table is an object of field notations and '$' properties.      *)
(***************************************************************************)
\* a reference to the schema object, to a table object
SchemaRef == [k |-> "schema"]
TableRef(t) == [k |-> "table", t |-> t]

\* the one element of a set of one element
Only(S) == CHOOSE x \in S : TRUE

\* obj[key], undefined when obj has no such property
Get(obj, key) == IF key \in DOMAIN obj THEN obj[key] ELSE Undefined

\* JavaScript truthiness
Truthy(v) ==
    CASE v.k = "bool" -> v.b
      [] v.k = "str" -> v.s # <<>>
      [] v.k = "undefined" -> FALSE
      [] OTHER -> TRUE

\* _(v).isString()
isString(v) == v.k = "str"

\* String.prototype.split
RECURSIVE split(_, _)
split(s, sep) ==
    IF \A i \in 1..Len(s) : s[i] # sep THEN <<s>>
    ELSE LET i == CHOOSE i \in 1..Len(s) : s[i] = sep /\ \A j \in 1..(i - 1) : s[j] # sep
         IN  <<SubSeq(s, 1, i - 1)>> \o split(SubSeq(s, i + 1, Len(s)), sep)

\* String.prototype.trim
RECURSIVE trim(_)
trim(s) ==
    IF s = <<>> THEN s
    ELSE IF Head(s) = " " THEN trim(Tail(s))
    ELSE IF s[Len(s)] = " " THEN trim(SubSeq(s, 1, Len(s) - 1))
    ELSE s

\* _(f).contains(flag)
contains(f, flag) == \E i \in 1..Len(f) : f[i] = flag

\* schema.$types of the test schema: 'string' is a column type, 'role' a foreign key
Types == [string |-> <<"varchar(64)">>, role |-> <<":", "roles">>]

\* the type '::id' and what initialise_schema makes of it
IdType == <<":", ":", "id">>
AutoIncrement == <<"INTEGER AUTO_INCREMENT">>

\* the local keys of initialise_schema: the property names that do not begin with '$'
keys(obj) == names(obj)

\* initialise_schema, the object it makes of a field in string notation
parseField(str) ==
    LET items == split(str, ",")
        f == [i \in 1..Len(items) |-> trim(items[i])]
        flags == Tail(f)
        field == [type |-> Str(Head(f)),
                  unique |-> Bool(contains(flags, <<"unique">>)),
                  index |-> Bool(contains(flags, <<"index">>)),
                  nullable |-> Bool(contains(flags, <<"nullable">>))]
    IN  IF contains(flags, <<"cascade">>)
        THEN Assign(Assign(field, "onDelete", Str(<<"cascade">>)), "onUpdate", Str(<<"cascade">>))
        ELSE field

\* initialise_schema, the body of its loop over the fields of a table: the object `field`
\* is the entry of the table, or a new object when the entry is a string, and that new
\* object is never stored in the table
initialise_field(table, tableName, fieldName) ==
    LET entry == table[fieldName]
        field == IF isString(entry) THEN parseField(entry.s) ELSE entry.c
        type == Get(field, "type")
        aliased == IF isString(type) /\ Len(type.s) = 1 /\ type.s[1] \in DOMAIN Types
                   THEN Assign(field, "type", Str(Types[type.s[1]]))
                   ELSE field
        isId == Get(aliased, "type") = Str(IdType)
        typed == IF isId THEN Assign(aliased, "type", Str(AutoIncrement)) ELSE aliased
        thrown == isId /\ Truthy(Get(table, "$primary"))
        done == IF thrown THEN typed
                ELSE Assign(Assign(Assign(typed, "$schema", SchemaRef),
                                   "$table", TableRef(tableName)),
                            "$name", Str(<<fieldName>>))
        stored == IF isString(entry) THEN table ELSE Assign(table, fieldName, Obj(done))
    IN  [table |-> IF isId /\ ~thrown THEN Assign(stored, "$primary", Str(<<fieldName>>))
                   ELSE stored,
         thrown |-> thrown]

\* the loop over the fields, in the order fields; it ends at the first exception
RECURSIVE initialise_fields(_, _, _)
initialise_fields(table, tableName, fields) ==
    IF fields = <<>> THEN [table |-> table, thrown |-> FALSE]
    ELSE Only({IF r.thrown THEN r ELSE initialise_fields(r.table, tableName, Tail(fields)) :
                r \in {initialise_field(table, tableName, Head(fields))}})

\* initialise_schema, the body of its loop over the tables: the back-references, the
\* generated id of a table without an id field and without $primary, then the fields in
\* the order of their definition, the generated id last
initialise_table(table, tableName) ==
    LET named == Assign(Assign(table, "$schema", SchemaRef), "$name", Str(<<tableName>>))
        generate == ~has(named, "id") /\ ~Truthy(Get(named, "$primary"))
        withId == IF generate THEN Assign(named, "id", Obj([type |-> Str(IdType)])) ELSE named
        fields == IF generate THEN SetToSeq(keys(named)) \o <<"id">> ELSE SetToSeq(keys(named))
    IN  initialise_fields(withId, tableName, fields)

\* the loop over the tables
RECURSIVE initialise_tables(_, _)
initialise_tables(schema, tables) ==
    IF tables = <<>> THEN [schema |-> schema, thrown |-> FALSE]
    ELSE LET t == Head(tables)
         IN  Only({IF r.thrown THEN [schema |-> [schema EXCEPT ![t] = r.table], thrown |-> TRUE]
                   ELSE initialise_tables([schema EXCEPT ![t] = r.table], Tail(tables)) :
                   r \in {initialise_table(schema[t], t)}})

\* autogen.initialise_schema
initialise_schema(schema) == initialise_tables(schema, SetToSeq(DOMAIN schema))

\* the lowest logLevel at which orm.error throws
ThrowLevel == 1

\* an error that returns the message at every logLevel
error_Returns(logLevel, field, msg) ==
    [field |-> field, thrown |-> FALSE, out |-> Str(msg)]

\* ORM.prototype.error: it throws, or with a logLevel below 1 returns the message
error(logLevel, field, msg) ==
    [field |-> field, thrown |-> logLevel >= ThrowLevel, out |-> Str(msg)]

\* what the expression orm.schema[ref][key] evaluates to: a pointer to the descriptor
\* object, or the value itself when the entry is no object
Pointer(schema, ref, key) ==
    LET v == Get(schema[ref], key)
    IN  IF isObject(v) THEN FieldRef(ref, key) ELSE v

\* column_definition from the foreign key on, for the index, unique and references it has
\* found so far: the names are stored in the descriptor and the clauses are produced.  A
\* references that is a string names a table whose id is meant; reading a property of
\* undefined is a TypeError.
define_keys(schema, field, type, index0, references0) ==
    LET name == field["$name"].s
        index == IF Truthy(index0) /\ ~isString(index0) THEN Str(name \o <<"_idx">>) ELSE index0
        field1 == IF Truthy(index) THEN Assign(field, "index", index) ELSE field
        unique0 == Get(field, "unique")
        unique == IF Truthy(unique0) /\ ~isString(unique0) THEN Str(name \o <<"_uniq">>)
                  ELSE unique0
        field2 == IF Truthy(unique) THEN Assign(field1, "unique", unique) ELSE field1
        named == isString(references0)
        noTable == named /\ ~(Len(references0.s) = 1 /\ references0.s[1] \in DOMAIN schema)
        references == IF named /\ ~noTable THEN Pointer(schema, references0.s[1], "id")
                      ELSE references0
        field3 == IF references0 = Undefined \/ noTable THEN field2
                  ELSE Assign(field2, "references", references)
        thrown == references0 # Undefined /\ (noTable \/ references.k # "field")
    IN  [field |-> field3,
         thrown |-> thrown,
         out |-> [k |-> "column", name |-> name, type |-> type,
                  notnull |-> ~Truthy(Get(field, "nullable")),
                  index |-> index, unique |-> unique, references |-> references]]

\* autogen.column_definition for the entry of a table: what it leaves in the descriptor,
\* whether it throws, and the clause it returns.  An entry that is still a string has no
\* $table, so that reading $table.$name is a TypeError.
column_definition(schema, logLevel, entry) ==
    IF ~isObject(entry) THEN [field |-> entry, thrown |-> TRUE, out |-> Undefined]
    ELSE LET field == entry.c
             type == field["type"].s
             refs == Tail(split(type, ":"))
             ref == Head(refs)
             key == IF Len(refs) > 1 /\ refs[2] # <<>> THEN refs[2] ELSE <<"id">>
             index0 == Get(field, "index")
             r == IF Head(type) # ":" THEN define_keys(schema, field, type, index0,
                                                         Get(field, "references"))
                  ELSE IF ~(Len(ref) = 1 /\ ref[1] \in DOMAIN schema)
                  THEN error(logLevel, field, <<"Cannot create foreign key: table not found">>)
                  ELSE IF ~(Len(key) = 1 /\ has(schema[ref[1]], key[1]))
                  THEN error(logLevel, field, <<"Cannot create foreign key: field not found">>)
                  ELSE IF Get(field, "references") # Undefined
                  THEN error(logLevel, field, <<"Cannot define foreign key: already specified">>)
                  ELSE define_keys(schema, field, <<"INTEGER">>,
                                   IF isString(index0) THEN index0
                                   ELSE Str(field["$name"].s \o <<"_idx_">> \o ref \o <<"_">> \o key),
                                   Pointer(schema, ref[1], key[1]))
         IN  [field |-> Obj(r.field), thrown |-> r.thrown, out |-> r.out]

\* create_table, its loop over the fields of a table: the clauses of the columns, the
\* descriptors as column_definition leaves them, up to the first exception
RECURSIVE define_columns(_, _, _, _, _)
define_columns(schema, logLevel, t, fields, columns) ==
    IF fields = <<>> THEN [schema |-> schema, thrown |-> FALSE, columns |-> columns]
    ELSE Only({LET schema1 == [schema EXCEPT ![t] = Assign(@, Head(fields), r.field)]
               IN  IF r.thrown THEN [schema |-> schema1, thrown |-> TRUE, columns |-> columns]
                   ELSE define_columns(schema1, logLevel, t, Tail(fields),
                                       Append(columns, r.out)) :
                r \in {column_definition(schema, logLevel, schema[t][Head(fields)])}})

\* table.$primary && table.$primary.length
hasPrimary(table) ==
    LET primary == Get(table, "$primary")
    IN  CASE primary.k = "str" -> primary.s # <<>>
          [] primary.k = "arr" -> primary.a # <<>>
          [] OTHER -> FALSE

\* the statements of create_database and create_tables
DropDatabase == [kind |-> "DROP DATABASE IF EXISTS"]
CreateDatabase == [kind |-> "CREATE DATABASE IF NOT EXISTS"]
UseDatabase == [kind |-> "USE"]
ForeignKeyChecks(on) == [kind |-> "SET FOREIGN_KEY_CHECKS", on |-> on]
DropTable(tables) == [kind |-> "DROP TABLE IF EXISTS", tables |-> tables]
CreateTable(t, columns, primary) ==
    [kind |-> "CREATE TABLE IF NOT EXISTS", table |-> t, columns |-> columns,
     primary |-> primary]

\* the server rejects a CREATE TABLE in which a column is an error message
Malformed(stmt) ==
    /\ stmt.kind = "CREATE TABLE IF NOT EXISTS"
    /\ \E i \in 1..Len(stmt.columns) : stmt.columns[i].k = "str"

\* autogen.create_table
create_table(schema, logLevel, t) ==
    Only({[schema |-> r.schema, thrown |-> r.thrown,
           stmt |-> CreateTable(t, r.columns,
                                IF hasPrimary(r.schema[t]) THEN r.schema[t]["$primary"]
                                ELSE Undefined)] :
            r \in {define_columns(schema, logLevel, t, SetToSeq(names(schema[t])), <<>>)}})

\* create_tables, its loop over the tables
RECURSIVE create_each(_, _, _, _)
create_each(schema, logLevel, tables, queries) ==
    IF tables = <<>> THEN [schema |-> schema, thrown |-> FALSE, queries |-> queries]
    ELSE Only({IF r.thrown THEN [schema |-> r.schema, thrown |-> TRUE, queries |-> queries]
               ELSE create_each(r.schema, logLevel, Tail(tables), Append(queries, r.stmt)) :
                r \in {create_table(schema, logLevel, Head(tables))}})

\* autogen.create_tables up to async.series: the statements it is going to send, all of
\* them generated before the first is sent
create_tables(schema, logLevel, recreate) ==
    LET tables == SetToSeq(names(schema))
        drop == IF recreate /\ tables # <<>> THEN <<DropTable(tables)>> ELSE <<>>
    IN  Only({[schema |-> r.schema, thrown |-> r.thrown,
               queries |-> Append(r.queries, ForeignKeyChecks(TRUE))] :
                r \in {create_each(schema, logLevel, tables,
                                   <<ForeignKeyChecks(FALSE)>> \o drop)}})

\* autogen.create_database up to async.series
create_database(recreate) ==
    (IF recreate THEN <<DropDatabase>> ELSE <<>>) \o <<CreateDatabase, UseDatabase>>

(***************************************************************************)
(* mysql_orm.create: the ORM constructor and its async.series              *)
(***************************************************************************)
\* the notations of the fields of the schemas handed to create
NameNotations ==
    {Obj([type |-> Str(<<"string">>)]),
     Obj([type |-> Str(<<"string">>), unique |-> Bool(TRUE)]),
     Str(<<"string", ",", " ", "unique">>)}
IdNotations == {Obj([type |-> Str(IdType)]), Obj([type |-> Str(<<"integer">>)])}
PrimaryNotations == {Arr(<<>>), Str(<<"name">>)}
RoleNotations ==
    {Obj([type |-> Str(<<"role">>)]),
     Obj([type |-> Str(<<":", "roles", ":", "name">>), index |-> Bool(TRUE)]),
     Obj([type |-> Str(<<":", "ghost">>)]),
     Obj([type |-> Str(<<":", "roles", ":", "ghost">>)]),
     Obj([type |-> Str(<<"integer">>), references |-> Str(<<"roles">>)]),
     Str(<<":", "roles", ",", "nullable">>)}
KeyNotations == {Obj([type |-> Str(IdType)])}

\* the objects with the property key absent or one of values, added to those of objs
Optional(objs, key, values) ==
    objs \cup {Assign(o, key, v) : o \in objs, v \in values}

\* the tables and the schemas handed to create: roles with a name, users with a role
RolesNotations ==
    Optional(Optional({[name |-> n] : n \in NameNotations}, "id", IdNotations),
             "$primary", PrimaryNotations)
UsersNotations == Optional({[role |-> r] : r \in RoleNotations}, "key", KeyNotations)
Schemas ==
    {[roles |-> r] : r \in RolesNotations}
        \cup {[roles |-> r, users |-> u] : r \in RolesNotations, u \in UsersNotations}

\* options.logLevel: 0 is the level the code calls you_have_deathwish, 2 the default
LogLevels == 0..2

\* what the default data step hands to saveMultipleTables
SaveData == [kind |-> "saveMultipleTables"]

\* the final callback of the async.series of the constructor: whatever err is, onready
\* gets null and the ORM
finish(o, err) ==
    [o EXCEPT !.pc = "ready", !.failed = err, !.todo = <<>>,
              !.onready = [n |-> @.n + 1, err |-> FALSE]]

\* async.series hands the first statement of a step to the connection
send(o, queries) == [o EXCEPT !.todo = queries, !.sent = Append(@, Head(queries))]

\* the constructor up to async.series: initialise_schema, then the first statement of
\* create_database; an exception of initialise_schema leaves the constructor
construct(o) ==
    Only({LET o1 == [o EXCEPT !.schema = r.schema, !.run = @ + 1]
          IN  IF r.thrown THEN [o1 EXCEPT !.pc = "thrown"]
              ELSE send([o1 EXCEPT !.pc = "database"], create_database(o.recreateDatabase)) :
            r \in {initialise_schema(o.schema)}})

\* the step of async.series after create_database (the connection is replaced by a pool):
\* create_tables generates its statements, which is the pass of column_definition over
\* the schema, and an exception there is caught by nobody
startTables(o) ==
    Only({LET o1 == [o EXCEPT !.schema = r.schema]
          IN  IF r.thrown THEN [o1 EXCEPT !.pc = "thrown", !.todo = <<>>]
              ELSE send([o1 EXCEPT !.pc = "tables",
                                   !.normalized = TRUE,
                                   !.norm = IF o.normalized THEN @ ELSE r.schema],
                        r.queries) :
            r \in {create_tables(o.schema, o.logLevel, o.recreateTables)}})

\* the default data saved whenever it was given
startData_WhenGiven(o) ==
    IF o.defaultdata
    THEN [o EXCEPT !.pc = "data", !.todo = <<>>, !.sent = Append(@, SaveData)]
    ELSE finish(o, FALSE)

\* the last step of async.series: the default data is saved when it was given and one of
\* the recreate options is set
startData(o) ==
    IF o.defaultdata /\ (o.recreateTables \/ o.recreateDatabase)
    THEN [o EXCEPT !.pc = "data", !.todo = <<>>, !.sent = Append(@, SaveData)]
    ELSE finish(o, FALSE)

\* mysql_orm.create(schema, defaultdata, options, onready)
create ==
    /\ orm.pc = "none"
    /\ \E schema \in Schemas, defaultdata, recreateDatabase, recreateTables \in BOOLEAN,
          logLevel \in LogLevels :
        orm' = construct([pc |-> "none", schema |-> schema, defaultdata |-> defaultdata,
                          recreateDatabase |-> recreateDatabase,
                          recreateTables |-> recreateTables, logLevel |-> logLevel,
                          run |-> 0, todo |-> <<>>, sent |-> <<>>, failed |-> FALSE,
                          normalized |-> FALSE, norm |-> schema, input |-> schema,
                          onready |-> [n |-> 0, err |-> FALSE]])
    /\ UNCHANGED <<dbVars, limitVars, par>>

\* mysql_orm.create called again with the schema object and the arguments of the first
\* call, once that call has reported the ORM ready
createAgain ==
    /\ orm.pc = "ready"
    /\ orm.run < MaxCreates
    /\ orm' = construct([orm EXCEPT !.pc = "none", !.todo = <<>>, !.sent = <<>>,
                                    !.failed = FALSE])
    /\ UNCHANGED <<dbVars, limitVars, par>>

\* the server has executed the statement in flight: async.series sends the next one of
\* the step, or goes on to the next step
DdlOk ==
    /\ orm.pc \in {"database", "tables"}
    /\ ~Malformed(Head(orm.todo))
    /\ orm' = IF Tail(orm.todo) # <<>> THEN send(orm, Tail(orm.todo))
              ELSE IF orm.pc = "database" THEN startTables(orm)
              ELSE startData(orm)
    /\ UNCHANGED <<dbVars, limitVars, par>>

\* the server has rejected the statement in flight, or the connection has failed
DdlFail ==
    /\ orm.pc \in {"database", "tables"}
    /\ orm' = finish(orm, TRUE)
    /\ UNCHANGED <<dbVars, limitVars, par>>

\* saveMultipleTables has called back, with or without an error
DataSaved ==
    /\ orm.pc = "data"
    /\ \E err \in BOOLEAN : orm' = finish(orm, err)
    /\ UNCHANGED <<dbVars, limitVars, par>>

\* before create is called no table exists and no operation runs
InitCreate ==
    /\ db = [t \in TableNames |-> {}]
    /\ autoinc = [t \in TableNames |-> 1]
    /\ txn = "none"
    /\ txnSnap = db
    /\ queue = <<>>
    /\ call = [op |-> "none"]
    /\ pre = db
    /\ rows = <<>>
    /\ cur = 0
    /\ phase = "idle"
    /\ batchCb = FALSE
    /\ cb = NoCallback
    /\ limitCriteria = EmptyObj
    /\ limitResult = NoClause
    /\ par = NoParallel
    /\ orm = NoOrm

NextCreate == create \/ createAgain \/ DdlOk \/ DdlFail \/ DataSaved

SpecCreate == InitCreate /\ [][NextCreate]_vars

\* C14 as stated: called a second time on the schema a first normalization has left,
\* initialise_schema and the pass of column_definition succeed and leave every table and
\* field descriptor as the first run left it.
C14_AsStated ==
    (orm.pc # "none" /\ orm.run > 1 /\ orm.normalized)
        => /\ orm.pc # "thrown"
           /\ orm.schema = orm.norm

\* the fields of table t of the ORM's schema that are descriptor objects
Descriptors(t) == {f \in names(orm.schema[t]) : isObject(orm.schema[t][f])}

\* the field f of table t has an automatic foreign key type, ':table' or ':table:field'
AutoForeignKey(t, f) == Head(orm.schema[t][f].c["type"].s) = ":"

\* the type of the automatic foreign key names a table or a field the schema has not
Dangling(t, f) ==
    LET refs == Tail(split(orm.schema[t][f].c["type"].s, ":"))
        key == IF Len(refs) > 1 THEN refs[2] ELSE <<"id">>
    IN  \/ Len(refs[1]) # 1
        \/ refs[1][1] \notin DOMAIN orm.schema
        \/ Len(key) # 1
        \/ key[1] \notin DOMAIN orm.schema[refs[1][1]]

\* some foreign-key type of the schema names a missing table or a missing field
HasDangling ==
    \E t \in DOMAIN orm.schema : \E f \in Descriptors(t) :
        AutoForeignKey(t, f) /\ Dangling(t, f)

\* the references of every foreign-key field points to a field descriptor of the schema
ReferencesExist ==
    \A t \in DOMAIN orm.schema : \A f \in Descriptors(t) :
        LET references == Get(orm.schema[t][f].c, "references")
        IN  /\ AutoForeignKey(t, f) => references # Undefined
            /\ references # Undefined
                => /\ references.k = "field"
                   /\ references.t \in DOMAIN orm.schema
                   /\ references.f \in DOMAIN orm.schema[references.t]
                   /\ isObject(orm.schema[references.t][references.f])

\* a CREATE TABLE statement has been handed to the server
CreateTableSent == \E i \in 1..Len(orm.sent) : orm.sent[i].kind = "CREATE TABLE IF NOT EXISTS"

\* create_tables has generated its statements: the pass of column_definition is over
Defined == orm.pc \in {"tables", "data"} \/ (orm.pc = "ready" /\ orm.normalized)

\* C15 as stated: once the schema has been normalized every foreign-key field's references
\* points to an existing field of an existing table, and for a schema with a foreign-key
\* type that names a missing table or field the normalization throws and no CREATE TABLE
\* statement is issued.
C15_AsStated ==
    orm.pc # "none"
        => /\ Defined => ReferencesExist
           /\ HasDangling => ~Defined /\ ~CreateTableSent

\* C15: with a logLevel of at least 1, once the schema has been normalized every
\* foreign-key field's references points to an existing field of an existing table, and
\* for a schema with a foreign-key type that names a missing table or field the
\* normalization throws and no CREATE TABLE statement is issued.
C15_DanglingIsFatal ==
    (orm.pc # "none" /\ orm.logLevel >= ThrowLevel)
        => /\ Defined => ReferencesExist
           /\ HasDangling => ~Defined /\ ~CreateTableSent

\* create_tables has thrown for a schema whose foreign key names a missing table or field
C15_Witness ==
    /\ orm.pc = "thrown"
    /\ orm.logLevel >= ThrowLevel
    /\ HasDangling
    /\ \E i \in 1..Len(orm.sent) : orm.sent[i] = UseDatabase

\* the schema has been normalized and a field references the field of another table
C15_WitnessResolved ==
    /\ Defined
    /\ orm.logLevel >= ThrowLevel
    /\ CreateTableSent
    /\ "users" \in DOMAIN orm.schema
    /\ \E f \in Descriptors("users") :
        Get(orm.schema["users"][f].c, "references") = FieldRef("roles", "name")

\* the first initialise_schema of the schema object has returned without an exception
Initialised == orm.pc # "none" /\ orm.run = 1 /\ (orm.pc = "thrown" => orm.sent # <<>>)

\* the fields of type ::id that initialise_schema finds in table t of the schema handed to
\* create, the generated id included
IdFields(t) ==
    {f \in names(orm.input[t]) :
        isObject(orm.input[t][f]) /\ orm.input[t][f].c["type"] = Str(IdType)}
        \cup (IF has(orm.input[t], "id") \/ has(orm.input[t], "$primary") THEN {} ELSE {"id"})

\* C16 as stated: after initialise_schema every table that does not declare $primary has a
\* $primary that names one of its fields, a table that declares neither id nor $primary
\* has the generated field id of type INTEGER AUTO_INCREMENT as its primary key, and a
\* table in which a second ::id field is found is rejected with an exception.
C16_AsStated ==
    /\ Initialised
        => \A t \in DOMAIN orm.input :
            /\ ~has(orm.input[t], "$primary")
                => \E f \in names(orm.schema[t]) : Get(orm.schema[t], "$primary") = Str(<<f>>)
            /\ (~has(orm.input[t], "$primary") /\ ~has(orm.input[t], "id"))
                => /\ isObject(orm.schema[t]["id"])
                   /\ orm.schema[t]["id"].c["type"] = Str(AutoIncrement)
                   /\ orm.schema[t]["$primary"] = Str(<<"id">>)
    /\ (orm.pc # "none" /\ orm.run = 1 /\ \E t \in DOMAIN orm.input : Cardinality(IdFields(t)) > 1)
        => orm.pc = "thrown" /\ orm.sent = <<>>

\* the type a type name stands for: the alias of schema.$types, or the name itself
Resolved(type) ==
    IF Len(type) = 1 /\ type[1] \in DOMAIN Types THEN Types[type[1]] ELSE type

\* C17 as stated: after initialise_schema the entry of a field given in string notation is
\* a descriptor object, with the alias-resolved first item as its type, with unique, index
\* and nullable set exactly when the string lists them, and with the back-references
\* $name, $table and $schema.
C17_AsStated ==
    (Initialised /\ orm.pc = "database")
        => \A t \in DOMAIN orm.input : \A f \in names(orm.input[t]) :
            isString(orm.input[t][f])
                => LET items == split(orm.input[t][f].s, ",")
                       flags == {trim(items[i]) : i \in 2..Len(items)}
                       entry == orm.schema[t][f]
                   IN  /\ isObject(entry)
                       /\ entry.c["type"] = Str(Resolved(trim(items[1])))
                       /\ entry.c["unique"] = Bool(<<"unique">> \in flags)
                       /\ entry.c["index"] = Bool(<<"index">> \in flags)
                       /\ entry.c["nullable"] = Bool(<<"nullable">> \in flags)
                       /\ entry.c["$name"] = Str(<<f>>)
                       /\ entry.c["$table"] = TableRef(t)
                       /\ entry.c["$schema"] = SchemaRef

\* C19 as stated: onready gets an error as its first argument when creating the database,
\* creating the tables or saving the default data failed, and a null error only when
\* every step of the initialization succeeded.
C19_AsStated ==
    orm.pc = "ready" => (orm.onready.err <=> orm.failed)

\* a statement of the kind has been handed to the server by this call of create
Sent(kind) == \E i \in 1..Len(orm.sent) : orm.sent[i].kind = kind

\* the default data is to be saved: it was given and a recreate option is set
SaveWanted == orm.defaultdata /\ (orm.recreateTables \/ orm.recreateDatabase)

\* the steps of the constructor before the default data have succeeded
TablesCreated ==
    \/ orm.pc = "data"
    \/ orm.pc = "ready" /\ (~orm.failed \/ Sent("saveMultipleTables"))

C20_WitnessSaved ==
    /\ orm.pc = "ready"
    /\ Sent("DROP DATABASE IF EXISTS")
    /\ ~Sent("DROP TABLE IF EXISTS")
    /\ Sent("saveMultipleTables")

(***************************************************************************)
(* async.parallel over the clause builders of one statement, as loadMany,  *)
(* delete and save call it.  Every builder but where calls back before it  *)
(* returns; where calls back when its lookups are answered.                *)
(***************************************************************************)
\* sql.insertInto, sql.update, sql.set and sql.onDuplicateKeyUpdate
insertInto(t) == [c |-> "INSERT INTO", table |-> t]
update(t) == [c |-> "UPDATE", table |-> t]
setClause(cols, row) == [c |-> "SET", set |-> set(cols, row)]
onDuplicateKeyUpdate(cols) == [c |-> "ON DUPLICATE KEY UPDATE", keys |-> cols]

\* a builder that has not called back yet, and one that throws when it is called
Deferred == [c |-> "deferred"]
Throws == [c |-> "throws"]

\* the columns of criteria that where's lookupForeignIds has to look up
Lookups(criteria) == ObjectCols(criteria, names(criteria))

\* where as a task of async.parallel: deferred when a parent has to be looked up
whereTask(criteria) == IF Lookups(criteria) = {} THEN whereClause(criteria) ELSE Deferred

\* the tasks save hands to async.parallel for the row, by save mode; in mode 'existing'
\* sql.where is called without the query function and throws
SaveBuilders(mode, t, row) ==
    CASE mode = "always" ->
            <<insertInto(t), setClause(names(row), row),
              onDuplicateKeyUpdate(onDuplicateKeys(row))>>
      [] mode = "new" -> <<insertInto(t), setClause(names(row), row)>>
      [] OTHER ->
            <<update(t), setClause(names(row) \ {"id"}, row),
              IF where(FALSE, [id |-> row["id"]]).thrown THEN Throws ELSE Deferred>>

\* orderby as a task of async.parallel: the calls of its callback and its exception
orderbyTask(table, criteria, strict) ==
    [c |-> "calls", calls |-> orderby(table, criteria, strict).calls,
     thrown |-> orderby(table, criteria, strict).thrown]

\* the tasks of loadMany and of delete, for the table object table of the table t
QueryBuilders(op, t, criteria, table, strict) ==
    IF op = "loadMany"
    THEN <<selectClause(criteria), from(t), whereTask(criteria),
           orderbyTask(table, criteria, strict), limitClause(criteria)>>
    ELSE <<deleteClause, from(t), whereTask(criteria)>>

\* data.join of save, _(sqlParts).compact().join of loadMany and delete
join(op, results) ==
    IF op \in {"loadMany", "delete"} THEN compose(results) ELSE results

\* the results stored in the order of completion
store_Append(results, index, value, order) ==
    [results EXCEPT ![Len(order) + 1] = value]

\* async.parallel stores what a task passes to its callback by the index of the task
store(results, index, value, order) ==
    [results EXCEPT ![index] = value]

\* the callback async.parallel hands to the task index, called with value: the result is
\* stored, the first error goes to the final callback at once and turns it into a no-op,
\* and the last completion without an error sends the statement
complete(p, index, value) ==
    LET results == store(p.results, index, value, p.order)
        order == Append(p.order, index)
        p1 == [p EXCEPT !.tasks[index] = value, !.results = results, !.order = order]
    IN  IF p.final # "none" THEN p1
        ELSE IF value = BuilderError THEN [p1 EXCEPT !.final = "error"]
        ELSE IF Len(order) = Len(p.tasks)
        THEN [p1 EXCEPT !.final = "sent", !.sql = join(p.op, results)]
        ELSE p1

\* a task that calls its callback with each of values, in this order
RECURSIVE completeAll(_, _, _)
completeAll(p, index, values) ==
    IF values = <<>> THEN p
    ELSE Only({completeAll(p1, index, Tail(values)) : p1 \in {complete(p, index, Head(values))}})

\* async.parallel calls the tasks in the order of the array: a task that calls back at
\* once completes before the next is called, an exception of a task ends the loop
RECURSIVE callTasks(_, _)
callTasks(p, index) ==
    IF index > Len(p.tasks) THEN p
    ELSE IF p.tasks[index] = Throws THEN [p EXCEPT !.final = "thrown"]
    ELSE IF p.tasks[index] = Deferred THEN callTasks(p, index + 1)
    ELSE IF p.tasks[index].c = "calls"
    THEN Only({IF p.tasks[index].thrown THEN [p1 EXCEPT !.final = "thrown"]
               ELSE callTasks(p1, index + 1) :
               p1 \in {completeAll(p, index, p.tasks[index].calls)}})
    ELSE Only({callTasks(p1, index + 1) : p1 \in {complete(p, index, p.tasks[index])}})

\* async.parallel(tasks, callback)
parallel(op, tasks) ==
    callTasks([op |-> op, tasks |-> tasks, results |-> [i \in 1..Len(tasks) |-> Unset],
               order |-> <<>>, final |-> "none", sql |-> <<>>], 1)

\* the rows save composes a statement for, after its lookupForeignIds: scalar values
ComposeRows(t) ==
    {row \in RowsOver(t, names(Schema[t])) : \A col \in DOMAIN row : ~isObject(row[col])}

\* the entries of $sort: names with and without a sign, a field reference, and an object
\* that is no field reference
SortNames == {<<"+", "name">>, <<"-", "name">>, <<"name">>}
SortEntries(t) == {Str(n) : n \in SortNames} \cup {FieldRef(t, "name"), Obj(EmptyObj)}
\* $sort: an entry, or an array of at most MaxSort entries
Sorts(t) ==
    SortEntries(t) \cup UNION {{Arr(a) : a \in [1..n -> SortEntries(t)]} : n \in 0..MaxSort}
\* the $sort of the criteria, the $sort of the table object, and the escapeId of the mysql
\* module
SortInputs(t) ==
    [criteria : {EmptyObj} \cup {[k \in {"$sort"} |-> v] : v \in Sorts(t)},
     table : {EmptyObj} \cup {[k \in {"$sort"} |-> Str(n)] : n \in SortNames},
     strict : BOOLEAN]
NoSort == [criteria |-> EmptyObj, table |-> EmptyObj, strict |-> FALSE]

\* loadMany(table, criteria) and delete(table, criteria) start their builders; $sort is
\* given with an id
composeQuery ==
    /\ par.op = "none"
    /\ \E op \in {"loadMany", "delete"}, t \in TableNames :
        \E arg \in QueryInputs[t], sort \in SortInputs(t) :
            /\ sort # NoSort => op = "loadMany" /\ arg = Num(1)
            /\ call' = [op |-> op, table |-> t, arg |-> arg, sort |-> sort]
            /\ par' = parallel(op, QueryBuilders(op, t, getCriteria(arg) @@ sort.criteria,
                                                 Schema[t] @@ sort.table, sort.strict))
    /\ UNCHANGED <<db, autoinc, txn, txnSnap, queue, pre, rows, cur, phase, batchCb, cb,
                   limitVars, orm>>

\* the second step of save starts the builders of the statement for the row
composeSave ==
    /\ par.op = "none"
    /\ \E t \in TableNames, mode \in {"always", "new", "existing"} :
        \E row \in ComposeRows(t) :
            /\ mode = "existing" => has(row, "id")
            /\ call' = [op |-> mode, table |-> t, arg |-> Obj(row)]
            /\ par' = parallel(mode, SaveBuilders(mode, t, row))
    /\ UNCHANGED <<db, autoinc, txn, txnSnap, queue, pre, rows, cur, phase, batchCb, cb,
                   limitVars, orm>>

\* the lookups of where are answered and where calls back: with an error, or with the
\* clause for the ids found
whereCallback ==
    /\ \E index \in 1..Len(par.tasks) :
        /\ par.tasks[index] = Deferred
        /\ LET criteria == getCriteria(call.arg) IN
           \E value \in {BuilderError} \cup
                        {whereClause([col \in DOMAIN criteria |->
                                        IF col \in Lookups(criteria) THEN Num(id)
                                        ELSE criteria[col]]) : id \in Vals} :
                par' = complete(par, index, value)
    /\ UNCHANGED <<dbVars, limitVars, orm>>

InitCompose ==
    /\ InitCreate

NextCompose == composeQuery \/ composeSave \/ whereCallback

SpecCompose == InitCompose /\ [][NextCompose]_vars

\* C18: whatever the order in which the builders of a loadMany, delete or save complete,
\* the statement that is sent holds the fragments the builders produced in the order of
\* the builders, which is the fixed order of the clauses, with the absent clauses left
\* out; and once a builder has reported an error no statement is sent.
C18_ComposedInOrder ==
    /\ par.final = "sent"
        => /\ par.sql = SelectSeq(par.tasks, IsFragment)
           /\ \A i, j \in 1..Len(par.sql) :
                i < j => ClauseRank(par.sql[i].c) < ClauseRank(par.sql[j].c)
           /\ Len(par.order) = Len(par.tasks)
    /\ (\E i \in 1..Len(par.tasks) : par.tasks[i] = BuilderError) => par.final # "sent"

\* a statement has been sent whose builders completed in another order than that of the
\* clauses, and a clause of which is absent
C18_Witness ==
    /\ par.final = "sent"
    /\ par.op = "loadMany"
    /\ \E i \in 1..(Len(par.order) - 1) : par.order[i] > par.order[i + 1]
    /\ \E i \in 1..Len(par.tasks) : par.tasks[i] = NoFragment
    /\ Len(par.sql) > 3

\* a builder has reported an error after another builder had
C18_WitnessError ==
    /\ par.final = "error"
    /\ Cardinality({i \in 1..Len(par.tasks) : par.tasks[i] = BuilderError}) > 1

(***************************************************************************)
(* saveMultipleTables: the order of the tables                             *)
(***************************************************************************)
\* the row saves of the current batch that have not called back
Unfinished == {j \in 1..Len(rows) : rows[j].pc # "ok"}

\* the statement that is executed in this step belongs to the only unfinished row save
LastOfBatch ==
    /\ Len(queue) = 1
    /\ Head(queue).kind \in {"insert", "update"}
    /\ Unfinished = {Head(queue).owner}

\* every INSERT and UPDATE on the connection is one of a row of the current table
OnlyCurrentTable ==
    \A k \in 1..Len(queue) :
        queue[k].kind \in {"insert", "update"}
            => queue[k].table = CurTable /\ queue[k].owner \in 1..Len(rows)

\* C21: saveMultipleTables takes the tables in the order of the data object: the statements
\* of the rows of a table are issued, and after the last table COMMIT, only when every row
\* save of each earlier table has completed, and the tables between two batches that follow
\* each other have no rows.
C21_TablesInOrder ==
    [][call.op = "saveMultipleTables"
        => /\ phase' = "saving" => OnlyCurrentTable'
           /\ cur' # cur =>
                /\ cur' > cur
                /\ \A k \in (cur + 1)..(cur' - 1) : call.data[k].rows = <<>>
                /\ cur >= 1 /\ call.data[cur].rows # <<>> => LastOfBatch]_vars

\* a row of the second table named its parent by a name that no role had before the call,
\* and was stored with the id of the role the first batch of the same call inserted
C21_Witness ==
    /\ call.op = "saveMultipleTables"
    /\ Len(call.data) = 2
    /\ call.data[1].table = "roles"
    /\ call.data[2].table = "users"
    /\ cb.n = 1
    /\ ~cb.err
    /\ \E i \in 1..Len(call.data[2].rows) :
        LET given == call.data[2].rows[i] IN
        /\ has(given, "role")
        /\ ~\E r \in pre.roles : r.name = given["role"].c["name"]
        /\ \E u \in db.users : \E r \in db.roles :
            /\ u.role = r.id
            /\ r.name = given["role"].c["name"]
            /\ u \notin pre.users

(***************************************************************************)
(* loadMany: the rows it calls back                                        *)
(***************************************************************************)
\* loadMany has called back with rows
LoadedRows == call.op = "loadMany" /\ cb.n > 0 /\ ~cb.err /\ cb.arg.k = "rows"

\* the stored row r with every foreign key that is a number replaced by the row object of
\* the parent it refers to, as the driver returns that row: the parent's own columns are
\* the stored values
Expanded(t, r) ==
    [col \in DOMAIN r |->
        IF IsForeignKey(t, col) /\ r[col] # NULL
        THEN RowVal(JsRow(CHOOSE q \in pre[Schema[t][col].references.table] :
                            q[Schema[t][col].references.field] = r[col]))
        ELSE JsRow(r)[col]]

C22_WitnessRaw ==
    /\ LoadedRows
    /\ call.table = "users"
    /\ isObject(call.arg)
    /\ has(call.arg.c, "$lookup")
    /\ ~call.arg.c["$lookup"].b
    /\ Len(cb.arg.rows) = 1
    /\ cb.arg.rows[1]["role"].k = "num"

(***************************************************************************)
(* load and delete with a scalar IdOrCriteria                              *)
(***************************************************************************)
\* load or delete was called with a number and has called back
ScalarDone == call.op \in {"load", "delete"} /\ call.arg.k = "num" /\ cb.n > 0

\* the stored rows of the table whose primary key is the number
ByPrimaryKey == {r \in pre[call.table] : r[PrimaryKey(call.table)] = call.arg.n}

\* what the claim says of the tables in T: load yields the row whose primary key is the
\* number, or null when there is none; delete removes exactly that row and calls back the
\* number of removed rows, unless a foreign key of a stored row refers to it
ScalarIsPrimaryKey(T) ==
    (ScalarDone /\ call.table \in T) =>
        IF call.op = "load"
        THEN IF ByPrimaryKey = {} THEN ~cb.err /\ cb.arg = Null
             ELSE \E r \in ByPrimaryKey : Yields(r)
        ELSE IF Referencing(pre, call.table, ByPrimaryKey) # {} THEN cb.err /\ db = pre
        ELSE /\ ~cb.err
             /\ cb.arg = Num(Cardinality(ByPrimaryKey))
             /\ db = [pre EXCEPT ![call.table] = @ \ ByPrimaryKey]

\* C24 as stated: load and delete called with a number select exactly the rows whose primary
\* key equals it, for every table of the schema whatever its primary key field is named.
C24_AsStated == ScalarIsPrimaryKey(QueryTables)

\* the same for the tables whose primary key is the field id
C24_TablesWithId == ScalarIsPrimaryKey({t \in QueryTables : PrimaryKey(t) = "id"})

\* delete with the id of a stored role that no user refers to has removed the role
C24_WitnessDelete ==
    /\ ScalarDone
    /\ call.op = "delete"
    /\ call.table = "roles"
    /\ ~cb.err
    /\ cb.arg = Num(1)
    /\ pre.roles # {}
    /\ db.roles # pre.roles

(***************************************************************************)
(* The WHERE clause of the statements of load, loadMany and delete         *)
(***************************************************************************)
\* the statement that load, loadMany or delete composed is on the connection
Composed ==
    /\ call.op \in {"load", "loadMany", "delete"}
    /\ queue # <<>>
    /\ Head(queue).kind = "sql"

\* column = value for every property of criteria whose name does not begin with '$', the
\* criteria for a parent being replaced by the id that was looked up
Constraints(criteria) == [col \in names(criteria) |-> criteria[col].n]

\* what the claim says of criteria with at most n properties: the WHERE clause holds every
\* constraint, as one condition the server accepts, and is absent without a property
WhereConstrains(n) ==
    (Composed /\ Cardinality(names(call.criteria)) <= n) =>
        LET w == Frag(Head(queue).sql, "WHERE") IN
        IF names(call.criteria) = {} THEN w = NoFragment
        ELSE /\ w # NoFragment
             /\ w.eq = Constraints(call.criteria)
             /\ DOMAIN w.eq \subseteq DOMAIN Schema[call.table]
                    => WellFormed(<<Head(queue).sql[1], Head(queue).sql[2], w>>)

\* C25 as stated: for criteria with any number n >= 1 of properties without '$' the WHERE
\* clause requires each column to equal the value of its property, all n together, and
\* with no such property there is no WHERE clause.
C25_AsStated == WhereConstrains(Cardinality(DOMAIN Schema["users"]))

\* the same for criteria with at most one property
C25_OneProperty == WhereConstrains(1)

\* a statement for criteria with one property, a parent given by name, is on the connection
C25_WitnessOne ==
    /\ Composed
    /\ isObject(call.arg)
    /\ names(call.arg.c) = {"role"}
    /\ isObject(call.arg.c["role"])
    /\ Frag(Head(queue).sql, "WHERE") # NoFragment

(***************************************************************************)
(* The ORDER BY clause of loadMany                                         *)
(***************************************************************************)
\* the $sort in effect for the loadMany whose builders were started
SortInEffect == sortOf(Schema[call.table] @@ call.sort.table, call.sort.criteria)

\* its entries
SortFields ==
    CASE SortInEffect.k = "arr" -> SortInEffect.a
      [] SortInEffect.k = "null" -> <<>>
      [] OTHER -> <<SortInEffect>>

\* what an entry stands for: the field of a reference, the field of a name, descending
\* after '-' and ascending after '+'
SortBy(field) ==
    IF field.k = "field" THEN [id |-> <<field.f>>, dir |-> ""]
    ELSE IF Head(field.s) = "-" THEN [id |-> Tail(field.s), dir |-> "DESC"]
    ELSE IF Head(field.s) = "+" THEN [id |-> Tail(field.s), dir |-> "ASC"]
    ELSE [id |-> field.s, dir |-> ""]

\* what the claim says of the entries in E: orderby calls back no clause when there is no
\* entry, and else the clause that sorts by each entry in turn
OrdersBy(E) ==
    (par.op = "loadMany" /\ \A i \in 1..Len(SortFields) : SortFields[i] \in E) =>
        par.tasks[4] =
            IF SortFields = <<>> THEN NoFragment
            ELSE [c |-> "ORDER BY", sort |-> [i \in 1..Len(SortFields) |-> SortBy(SortFields[i])]]

\* C26 as stated: ORDER BY is built of criteria.$sort, else of the table's $sort, and is
\* absent when neither is given; an entry is a field name or a field reference, a name
\* after '-' sorts descending, after '+' ascending, and a name without a sign or a field
\* reference sorts by that field.
C26_AsStated ==
    OrdersBy({Str(n) : n \in SortNames} \cup {FieldRef(t, "name") : t \in TableNames})

\* the same for names with a sign
C26_Signed == OrdersBy({Str(n) : n \in SortNames \ {<<"name">>}})

\* the clause was built of the $sort of the table, the criteria having none
C26_WitnessTable ==
    /\ par.op = "loadMany"
    /\ ~has(call.sort.criteria, "$sort")
    /\ has(call.sort.table, "$sort")
    /\ par.tasks[4] = [c |-> "ORDER BY", sort |-> <<[id |-> <<"name">>, dir |-> "DESC"]>>]
    /\ par.final = "sent"

(***************************************************************************)
(* The callbacks of the clause builders                                    *)
(***************************************************************************)
\* the number of times the builder at index has called back
Calls(index) == Cardinality({i \in 1..Len(par.order) : par.order[i] = index})

\* the builders of an operation were started and no builder waits for an answer
BuildersDone ==
    /\ par.op # "none"
    /\ \A index \in 1..Len(par.tasks) : par.tasks[index] # Deferred

\* every builder has called back once and the final callback of async.parallel has run
CalledOnce ==
    /\ \A index \in 1..Len(par.tasks) : Calls(index) = 1
    /\ par.final \in {"sent", "error"}

\* C29 as stated: every clause builder invokes its callback exactly once for every input,
\* so that the composition completes exactly once per operation.
C29_AsStated == BuildersDone => CalledOnce

\* the same for save in the modes 'always' and 'new', delete, and loadMany with a $sort of
\* names with a sign
C29_OnceWithSignedSort ==
    (/\ BuildersDone
     /\ par.op # "existing"
     /\ par.op = "loadMany" =>
            \A i \in 1..Len(SortFields) : SortFields[i] \in {Str(n) : n \in SortNames \ {<<"name">>}}
     /\ par.op = "loadMany" => SortInEffect.k # "obj")
        => CalledOnce

\* orderby has called back twice, first with the error for an entry that is no field
\* reference and then with a clause
C29_WitnessTwice ==
    /\ par.op = "loadMany"
    /\ Calls(4) = 2
    /\ par.final = "error"
    /\ par.tasks[4].c = "ORDER BY"

(***************************************************************************)
(* saveMany and saveMultipleTables: after an error, and the transaction    *)
(***************************************************************************)
\* the INSERT and UPDATE statements of q
Writes(q) == {q[k] : k \in {j \in 1..Len(q) : q[j].kind \in {"insert", "update"}}}

\* C27 as stated: once saveMany has reported an error, no further INSERT or UPDATE is issued
\* for the rows of that batch, so that no row save of the failed batch writes after the
\* rollback was requested.
C27_AsStated ==
    [][(call.op = "saveMultipleTables" /\ batchCb) => Writes(queue') \subseteq Writes(queue)]_vars

\* a statement of a table is issued after saveMany reported an error only for a row whose
\* save was under way, and never for a later table
C27_OnlyRunningSaves ==
    [][(call.op = "saveMultipleTables" /\ batchCb) =>
            /\ cur' = cur
            /\ \A s \in Writes(queue') \ Writes(queue) :
                    s.table = CurTable /\ rows[s.owner].pc = "ready"]_vars

\* the transaction is over and the callback has been called once
Ended == cb.n = 1 /\ txn \in {"committed", "rolledback"}

\* beginTransaction failed: the error was called back and nothing was saved
NotBegun == cb.n = 1 /\ cb.err /\ txn = "none" /\ rows = <<>> /\ db = pre

\* what C28 says of the states: one callback at most; COMMIT is sent when every batch has
\* succeeded, ROLLBACK when a batch or the commit failed; success is reported after the
\* commit, an error after the rollback or without a transaction
TransactionOrder ==
    call.op = "saveMultipleTables" =>
        /\ cb.n <= 1
        /\ phase = "commit" => ~batchCb /\ cur > Len(call.data) /\ Unfinished = {}
        /\ batchCb => phase \in {"rollback", "done"}
        /\ phase = "rollback" => batchCb \/ cur > Len(call.data)
        /\ Len(SelectSeq(queue, LAMBDA s : s.kind \in {"commit", "rollback"})) <= 1
        /\ (cb.n = 1 /\ ~cb.err) => txn = "committed" /\ phase = "done"
        /\ (cb.n = 1 /\ cb.err) => (txn = "rolledback" \/ NotBegun) /\ phase = "done"
        /\ cb.n = 0 => txn \in {"none", "open"}

\* C28 as stated: saveMultipleTables ends the transaction it began exactly once and calls
\* back exactly once, in the order TransactionOrder; so when nothing is left to run the
\* transaction is over and the callback was called, or the transaction could not be begun.
C28_AsStated ==
    /\ TransactionOrder
    /\ (call.op = "saveMultipleTables" /\ Quiescent) => Ended \/ NotBegun

\* the same without the end: what holds of the order of the steps
C28_Order == TransactionOrder

\* the commit failed, the rollback was made and the error called back
C28_WitnessCommitFailed ==
    /\ call.op = "saveMultipleTables"
    /\ cb.n = 1
    /\ cb.err
    /\ ~batchCb
    /\ txn = "rolledback"
    /\ Len(call.data) = 2

(***************************************************************************)
(* load and loadMany: the criteria object of the caller                    *)
(***************************************************************************)
\* op was called with a criteria object and has called back
CriteriaDone(op) == call.op = op /\ isObject(call.arg) /\ cb.n > 0

\* C30 as stated: after load or loadMany has completed, with rows or with an error, every
\* property of the criteria object the caller passed has the value it had before the call.
C30_AsStated == (CriteriaDone("load") \/ CriteriaDone("loadMany")) => call.own = call.arg.c

\* the same for load, which works on a copy of the object, and for the properties of the
\* criteria of loadMany that are no criteria for a parent
C30_LoadCopies ==
    /\ CriteriaDone("load") => call.own = call.arg.c
    /\ CriteriaDone("loadMany") =>
            /\ DOMAIN call.own = DOMAIN call.arg.c
            /\ \A k \in DOMAIN call.own : ~isObject(call.arg.c[k]) => call.own[k] = call.arg.c[k]

\* loadMany has called back rows, and the criteria for the parent in the caller's object
\* have been replaced by the id of the parent
C30_WitnessReplaced ==
    /\ CriteriaDone("loadMany")
    /\ ~cb.err
    /\ has(call.arg.c, "role")
    /\ isObject(call.arg.c["role"])
    /\ call.own["role"].k = "num"

(***************************************************************************)
(* Load, then save the loaded object                                       *)
(***************************************************************************)
\* the caller invokes load(table, id, callback) for a table of the test schema
loadById ==
    /\ call.op = "none"
    /\ \E t \in TableNames : \E id \in Vals :
        /\ call' = QueryCall("load", t, Num(id), loadCriteria(Num(id)))
        /\ StartBuilders("load", t, loadCriteria(Num(id)))
    /\ pre' = db
    /\ UNCHANGED <<db, autoinc, txn, txnSnap, cur, batchCb, limitVars, par, orm>>

\* a loaded object as a property of a row that is saved: the row of the parent is an object
\* of its columns, which lookupForeignId takes for criteria
AsCriteria(v) ==
    IF v.k = "row" THEN Obj([k \in DOMAIN v.r |-> IF v.r[k] = Null THEN NULL ELSE v.r[k].n])
    ELSE v

\* what the caller does to the loaded object before saving it: nothing, or
\* user.role = { name: ... }
Changes(t) ==
    {EmptyObj} \cup
    UNION {{[k \in {col} |-> Obj([j \in {"name"} |-> v])] : v \in Vals} : col \in listForeignKeys(t)}

\* load has called back a row, and the caller invokes save(table, row, callback) with the
\* object it got, after setting the properties of change
saveLoaded ==
    /\ call.op = "load"
    /\ cb.n = 1
    /\ ~cb.err
    /\ cb.arg.k = "row"
    /\ queue = <<>>
    /\ \E change \in Changes(call.table) :
        LET row == [k \in DOMAIN cb.arg.r |->
                        IF has(change, k) THEN change[k] ELSE AsCriteria(cb.arg.r[k])]
        IN  /\ call' = [op |-> "save", table |-> call.table, row |-> row,
                        loaded |-> cb.arg.r, change |-> change]
            /\ rows' = <<NewProc(call.table, row)>>
            /\ queue' = LookupQueries(call.table, row, 1, NewProc(call.table, row).pending)
    /\ cb' = NoCallback
    /\ phase' = "saving"
    /\ UNCHANGED <<db, autoinc, txn, txnSnap, pre, cur, batchCb, limitVars, par, orm>>

\* the stored tables of the round trip: the name of a role may be NULL, there is no user or
\* one user, and the role of a user is a stored role or NULL
RoundRoles ==
    {R \in SUBSET [id : Vals, name : Vals \cup {NULL}] : \A r1, r2 \in R : r1.id = r2.id => r1 = r2}

InitRound ==
    /\ db \in UNION {{[roles |-> R, users |-> U, tags |-> {}] : U \in QueryUsersTables(R)} :
                        R \in RoundRoles}
    /\ autoinc = [t \in TableNames |-> MaxIdOf(db[t]) + 1]
    /\ txn = "none"
    /\ txnSnap = db
    /\ queue = <<>>
    /\ call = [op |-> "none"]
    /\ pre = db
    /\ rows = <<>>
    /\ cur = 0
    /\ phase = "idle"
    /\ batchCb = FALSE
    /\ cb = NoCallback
    /\ limitCriteria = EmptyObj
    /\ limitResult = NoClause
    /\ par = NoParallel
    /\ orm = NoOrm

NextRound ==
    \/ loadById
    \/ DbLoad
    \/ DbLookupRow
    \/ saveLoaded
    \/ saveStatement(1)
    \/ DbSelect
    \/ DbWrite

SpecRound == InitRound /\ [][NextRound]_vars

\* the loaded object was saved and save has called back
RoundDone == call.op = "save" /\ cb.n > 0

\* the stored row that was loaded
LoadedRow == CHOOSE r \in pre[call.table] : Num(r["id"]) = call.loaded["id"]

\* the roles that have the name the caller gave
NamedRoles == {q \in pre.roles : q.name = call.change["role"].c["name"]}

\* what the claim says: saving the loaded object as it is succeeds
\* and leaves the tables as they were; with one foreign key replaced by criteria that name
\* one parent, save succeeds and only that field of the row has changed
RoundTrip ==
    RoundDone =>
        IF call.change = EmptyObj THEN ~cb.err /\ db = pre
        ELSE Cardinality(NamedRoles) = 1 =>
                /\ ~cb.err
                /\ db = [pre EXCEPT ![call.table] =
                            (@ \ {LoadedRow})
                                \cup {[LoadedRow EXCEPT !["role"] = (CHOOSE q \in NamedRoles : TRUE).id]}]

\* C23 as stated: for every stored row, loading it with its foreign keys expanded and
\* saving the loaded object back unchanged succeeds and leaves the database unchanged, and
\* with one foreign key replaced by natural-key criteria only that field of that row changes.
C23_AsStated == RoundTrip

\* the same for stored tables in which no column of a parent row is NULL
C23_ParentsWithoutNull ==
    (\A u \in pre.users : \A q \in pre.roles : u.role = q.id => q.name # NULL) => RoundTrip

\* a loaded user was saved with its role replaced by the name of another role, and is
\* stored with the id of that role
C23_WitnessReplaced ==
    /\ RoundDone
    /\ ~cb.err
    /\ call.table = "users"
    /\ call.change # EmptyObj
    /\ call.loaded["role"].k = "row"
    /\ db # pre

====
